---- MODULE Spec2Model ----
(***************************************************************************)
(* Model of the Siamese streaming erasure-code encoder                     *)
(* (SiameseEncoder.h / SiameseEncoder.cpp): the packet window, the lane    *)
(* sums' bookkeeping, the acknowledgement state with its loss iterator,    *)
(* and the public operations Add, Get, RemoveBefore, Acknowledge,          *)
(* Retransmit, Encode and GetStatistics.                                   *)
(*                                                                         *)
(* SiameseCommon.h and SiameseSerializers.h are not part of the sources at *)
(* hand; what they define (column arithmetic, thresholds, OriginalPacket,  *)
(* the varint headers) is modelled from the written specification.         *)
(***************************************************************************)
EXTENDS Integers, Sequences, FiniteSets, TLC

(***************************************************************************)
(* Program constants                                                       *)
(***************************************************************************)
SIAMESE_MAX_PACKETS == 16000
kColumnPeriod == 4194304
kColumnLaneCount == 8
kColumnSumCount == 3
kSubwindowSize == kColumnLaneCount * 8
kEncoderRemoveThreshold == 2 * kSubwindowSize
SIAMESE_CAUCHY_THRESHOLD == 64
SIAMESE_SUM_RESET_THRESHOLD == 32
kCauchyMaxColumns == SIAMESE_CAUCHY_THRESHOLD
kCauchyMaxRows == 256 - kCauchyMaxColumns
kRowPeriod == 256
kPaddingBytes == 8

(***************************************************************************)
(* Bounds of the model                                                     *)
(***************************************************************************)
\* Add calls explored after the initial state
MaxAddCalls == 2
\* Successful Add calls explored from the initial state of SpecPrefilled and
\* of SpecFull
MaxMoreAdds == 1
\* Encode calls are explored while NextRow and NextCauchyRow are below MaxRows
\* (MaxSumRows in SpecPrefilled, where a row follows a row of running sums)
MaxRows == 1
MaxSumRows == 2
\* Successive Retransmit calls recorded after an acknowledgement
MaxHistory == 6
\* Add calls that precede the initial state of SpecPrefilled and of SpecFull
Prefill == 201
FullPrefill == 15999
TimedPrefill == 3
CauchyPrefill == 3
SumsPrefill == 65
MaxTime == 2
\* Add calls, each followed by the removal of everything, that precede the
\* initial state of SpecWrapped: the next column to assign is the last one
\* before the wrap
WrappedPrefill == kColumnPeriod - 1
\* Add calls explored from the initial state of SpecWrapped
WrappedAdds == 3
\* Siamese rows that precede the initial state of SpecRows, and the rows
\* explored from there on
RowsPrefill == 254
MaxWrapRows == 4

\* Live allocations explored, the fallback allocations among them, and the
\* live allocations explored on top of those of InitFragmented
MaxLive == 4
MaxFallbacks == 1
MaxMoreLive == 1
\* The logging worker: the threads that call it and the Write calls explored
MaxClients == 2
MaxWrites == 2

Lanes == 0 .. (kColumnLaneCount - 1)
Sums == 0 .. (kColumnSumCount - 1)

Max(a, b) == IF a < b THEN b ELSE a

(***************************************************************************)
(* Column arithmetic on the 22-bit circular domain                         *)
(***************************************************************************)
AddColumns(x, y) == (x + y) % kColumnPeriod

\* (x - y) % kColumnPeriod on unsigned: kColumnPeriod divides 2^32, so the
\* 32-bit wrap of x - y does not change the remainder
SubtractColumns(x, y) == (((x - y) % kColumnPeriod) + kColumnPeriod) % kColumnPeriod

IncrementColumn1(x) == AddColumns(x, 1)

IsColumnDeltaNegative(delta) == delta >= kColumnPeriod \div 2

\* a - b on unsigned.  The model checker's integers are 32-bit signed and
\* cannot hold 2^32 + (a - b): a negative difference d stands for the wrapped
\* value 2^32 + d, which is larger than every count of the model.
USub(a, b) == a - b

(***************************************************************************)
(* Variable-length integers of the wire formats                            *)
(***************************************************************************)
\* A value below 128 is one byte; larger values continue with the high bit.
RECURSIVE SerializeVarint(_)
SerializeVarint(v) ==
    IF v < 128 THEN << v >>
    ELSE << 128 + (v % 128) >> \o SerializeVarint(v \div 128)

\* Byte i (0-based) of a buffer that is followed by zero bytes
ByteAt(buf, i) == IF i < Len(buf) THEN buf[i + 1] ELSE 0

\* Reads one varint at offset pos of a buffer of `size` readable bytes (the
\* bytes past Len(buf) read as zero padding).  bytes = -1 when it does not end
\* within `size`.
RECURSIVE DeserializeVarint(_, _, _)
DeserializeVarint(buf, pos, size) ==
    IF pos >= size THEN [bytes |-> -1, value |-> 0]
    ELSE LET b == ByteAt(buf, pos) IN
         IF b < 128 THEN [bytes |-> 1, value |-> b]
         ELSE LET rest == DeserializeVarint(buf, pos + 1, size) IN
              IF rest.bytes < 0 THEN rest
              ELSE [bytes |-> rest.bytes + 1,
                    value |-> (b - 128) + 128 * rest.value]

\* Header of an acknowledgement: the next column expected
SerializeHeader_PacketNum(column) == SerializeVarint(column)

DeserializeHeader_PacketNum(data) ==
    LET r == DeserializeVarint(data, 0, Len(data)) IN
    IF r.bytes < 1 \/ r.value >= kColumnPeriod
    THEN [bytes |-> -1, value |-> 0]
    ELSE r

\* One loss range: varint(relativeStart) || varint(lossCountM1)
SerializeHeader_NACKLossRange(relativeStart, lossCountM1) ==
    SerializeVarint(relativeStart) \o SerializeVarint(lossCountM1)

DeserializeHeader_NACKLossRange(buf, pos, size) ==
    LET failure == [bytes |-> -1, relativeStart |-> 0, lossCountM1 |-> 0]
        both(a, b) ==
            IF b.bytes < 0 THEN failure
            ELSE [bytes |-> a.bytes + b.bytes,
                  relativeStart |-> a.value, lossCountM1 |-> b.value]
        second(a) ==
            IF a.bytes < 0 THEN failure
            ELSE both(a, DeserializeVarint(buf, pos + a.bytes, size))
    IN second(DeserializeVarint(buf, pos, size))

\* Length prefix of a stored original
SerializeHeader_PacketLength(bytes) == SerializeVarint(bytes)


(***************************************************************************)
(* OriginalPacket                                                          *)
(***************************************************************************)
\* A slot of a subwindow that no Add has written yet
EmptyOriginal ==
    [Column |-> 0, Buffer |-> << >>, HeaderBytes |-> 0, LastSendMsec |-> 0]

\* OriginalPacket::Initialize: length prefix followed by the payload
InitializeOriginal(column, data, t) ==
    LET header == SerializeHeader_PacketLength(Len(data)) IN
    [Column |-> column, Buffer |-> header \o data,
     HeaderBytes |-> Len(header), LastSendMsec |-> t]

(***************************************************************************)
(* EncoderPacketWindow, as a record W.  Subwindows is the vector of the    *)
(* allocated subwindows, each the sequence of its kSubwindowSize originals.*)
(***************************************************************************)
ColumnToElement(W, column) == SubtractColumns(column, W.ColumnStart)

InvalidElement(W, element) == element >= W.Count

ElementToColumn(W, element) == AddColumns(element, W.ColumnStart)

GetWindowElement(W, windowElement) ==
    W.Subwindows[(windowElement \div kSubwindowSize) + 1]
                [(windowElement % kSubwindowSize) + 1]

GetUnacknowledgedCount(W) == USub(W.Count, W.FirstUnremovedElement)

GetNextLaneElement(element, laneIndex) ==
    LET nextElement == element - (element % kColumnLaneCount) + laneIndex IN
    IF nextElement < element THEN nextElement + kColumnLaneCount ELSE nextElement

\* State of the window members after the constructor ran ClearWindow()
NewWindow ==
    [EmergencyDisabled |-> FALSE,
     NextColumn |-> 0,
     Count |-> 0,
     ColumnStart |-> 0,
     LongestPacket |-> 0,
     FirstUnremovedElement |-> 0,
     SumStartElement |-> 0,
     SumEndElement |-> 0,
     SumColumnStart |-> 0,
     SumErasedCount |-> 0,
     Subwindows |-> << >>,
     LaneLongest |-> [l \in Lanes |-> 0],
     NextElement |-> [l \in Lanes |-> [s \in Sums |-> l]],
     SumBytes |-> [l \in Lanes |-> [s \in Sums |-> 0]],
     SumCols |-> [l \in Lanes |-> [s \in Sums |-> << >>]]]

\* A restart that leaves FirstUnremovedElement of the emptied window
StartNewWindow_FirstKept(W, column) ==
    [W EXCEPT !.ColumnStart = column - (column % kColumnLaneCount),
              !.SumStartElement = column % kColumnLaneCount,
              !.SumEndElement = column % kColumnLaneCount,
              !.Count = (column % kColumnLaneCount) + 1,
              !.LongestPacket = 0,
              !.LaneLongest = [l \in Lanes |-> 0]]

\* A restart that leaves the sum range of the emptied window
StartNewWindow_SumsKept(W, column) ==
    [W EXCEPT !.ColumnStart = column - (column % kColumnLaneCount),
              !.FirstUnremovedElement = column % kColumnLaneCount,
              !.Count = (column % kColumnLaneCount) + 1,
              !.LongestPacket = 0,
              !.LaneLongest = [l \in Lanes |-> 0]]

\* EncoderPacketWindow::StartNewWindow
StartNewWindow(W, column) ==
    LET element == column % kColumnLaneCount IN
    [W EXCEPT !.ColumnStart = column - element,
              !.SumStartElement = element,
              !.SumEndElement = element,
              !.FirstUnremovedElement = element,
              !.Count = element + 1,
              !.LongestPacket = 0,
              !.LaneLongest = [l \in Lanes |-> 0]]

\* A full-window test that lets one packet too many in
WindowFull_Late(W) == W.Count > SIAMESE_MAX_PACKETS

\* The test of EncoderPacketWindow::Add for a full window
WindowFull(W) == W.Count >= SIAMESE_MAX_PACKETS

\* An Add that does not roll the next column
RollNextColumn_Kept(W) == W.NextColumn

\* "Roll next column to assign"
RollNextColumn(W) == IncrementColumn1(W.NextColumn)

\* EncoderPacketWindow::Add.  oom names the allocation that fails, if any:
\* "subwindow" (Construct<EncoderSubwindow>) or "initialize"
\* (OriginalPacket::Initialize).  Returns the window, the result and the
\* value left in packet.PacketNum (-1: not written).
WindowAdd(W, data, t, oom) ==
    IF W.EmergencyDisabled
    THEN [W |-> W, result |-> "Disabled", PacketNum |-> -1]
    ELSE IF WindowFull(W)
    THEN [W |-> W, result |-> "MaxPacketsReached", PacketNum |-> -1]
    ELSE
    LET column == W.NextColumn
        needSubwindow ==
            W.Count + kColumnLaneCount >= Len(W.Subwindows) * kSubwindowSize
    IN
    IF needSubwindow /\ oom = "subwindow"
    THEN [W |-> [W EXCEPT !.EmergencyDisabled = TRUE],
          result |-> "Disabled", PacketNum |-> column]
    ELSE
    LET W1 == IF needSubwindow
              THEN [W EXCEPT !.Subwindows =
                        Append(@, [i \in 1 .. kSubwindowSize |-> EmptyOriginal])]
              ELSE W
        element == IF W.Count > 0 THEN W.Count ELSE column % kColumnLaneCount
        W2 == IF W.Count > 0
              THEN [W1 EXCEPT !.Count = @ + 1]
              ELSE StartNewWindow(W1, column)
    IN
    IF oom = "initialize"
    THEN [W |-> [W2 EXCEPT !.EmergencyDisabled = TRUE],
          result |-> "Disabled", PacketNum |-> column]
    ELSE
    LET original == InitializeOriginal(column, data, t)
        originalBytes == Len(original.Buffer)
        laneIndex == column % kColumnLaneCount
    IN
    [W |-> [W2 EXCEPT !.Subwindows[(element \div kSubwindowSize) + 1]
                                  [(element % kSubwindowSize) + 1] = original,
                      !.NextColumn = RollNextColumn(W),
                      !.LaneLongest[laneIndex] = Max(@, originalBytes),
                      !.LongestPacket = Max(@, originalBytes)],
     result |-> "Success", PacketNum |-> column]

\* A removal that moves FirstUnremovedElement back as well as forward
RemoveBefore_Unguarded(W, firstKeptColumn) ==
    IF W.EmergencyDisabled THEN W
    ELSE IF InvalidElement(W, ColumnToElement(W, firstKeptColumn))
    THEN IF IsColumnDeltaNegative(ColumnToElement(W, firstKeptColumn))
         THEN W
         ELSE [W EXCEPT !.Count = 0]
    ELSE [W EXCEPT !.FirstUnremovedElement = ColumnToElement(W, firstKeptColumn)]

\* A removal of everything that marks the elements removed and keeps Count
RemoveBefore_CountKept(W, firstKeptColumn) ==
    IF W.EmergencyDisabled THEN W
    ELSE IF InvalidElement(W, ColumnToElement(W, firstKeptColumn))
    THEN IF IsColumnDeltaNegative(ColumnToElement(W, firstKeptColumn))
         THEN W
         ELSE [W EXCEPT !.FirstUnremovedElement = W.Count]
    ELSE IF W.FirstUnremovedElement < ColumnToElement(W, firstKeptColumn)
         THEN [W EXCEPT !.FirstUnremovedElement = ColumnToElement(W, firstKeptColumn)]
         ELSE W

\* EncoderPacketWindow::RemoveBefore
RemoveBefore(W, firstKeptColumn) ==
    IF W.EmergencyDisabled THEN W
    ELSE
    LET firstKeptElement == ColumnToElement(W, firstKeptColumn) IN
    IF InvalidElement(W, firstKeptElement)
    THEN IF IsColumnDeltaNegative(firstKeptElement)
         THEN W
         ELSE [W EXCEPT !.Count = 0]
    ELSE IF W.FirstUnremovedElement < firstKeptElement
         THEN [W EXCEPT !.FirstUnremovedElement = firstKeptElement]
         ELSE W

\* EncoderPacketWindow::ResetSums
ResetSums(W, elementStart) ==
    [W EXCEPT !.NextElement =
                  [l \in Lanes |-> [s \in Sums |-> GetNextLaneElement(elementStart, l)]],
              !.SumBytes = [l \in Lanes |-> [s \in Sums |-> 0]],
              !.SumCols = [l \in Lanes |-> [s \in Sums |-> << >>]],
              !.SumStartElement = elementStart,
              !.SumEndElement = elementStart,
              !.SumColumnStart = ElementToColumn(W, elementStart),
              !.SumErasedCount = 0]

\* Largest of a set of naturals (0 for the empty set)
SetMax(S) == IF S = {} THEN 0 ELSE CHOOSE m \in S : \A x \in S : x <= m

\* A sum that does not record how far it got
StoredNextElement_Stale(element, n) == element

\* "Store next element to accumulate", after n originals of the lane
StoredNextElement(element, n) == element + kColumnLaneCount * n

\* EncoderPacketWindow::GetSum: accumulates the originals of the lane from
\* NextElement[sumIndex] up to elementEnd.  With oom, GrowZeroPadded fails at
\* the first growth the call asks for: the call sets EmergencyDisabled and
\* leaves through ExitSum without storing the next element.
GetSum(W, laneIndex, sumIndex, elementEnd, oom) ==
    LET element == W.NextElement[laneIndex][sumIndex] IN
    IF ~(element < elementEnd) THEN W
    ELSE
    LET n == (elementEnd - element + kColumnLaneCount - 1) \div kColumnLaneCount
        elementAt(i) == element + kColumnLaneCount * (i - 1)
        bytesAt(i) == Len(GetWindowElement(W, elementAt(i)).Buffer)
        columnAt(i) == GetWindowElement(W, elementAt(i)).Column
        bytes0 == W.SumBytes[laneIndex][sumIndex]
        laneLongest == W.LaneLongest[laneIndex]
        firstGrowFails == oom /\ laneLongest > 0 /\ laneLongest > bytes0
        bytes1 == IF laneLongest > 0 THEN Max(bytes0, laneLongest) ELSE bytes0
        failing == {i \in 1 .. n : bytesAt(i) > bytes1}
        \* iterations completed before the failing growth
        done == IF firstGrowFails THEN 0
                ELSE IF oom /\ failing # {}
                     THEN (CHOOSE i \in failing : \A j \in failing : i <= j) - 1
                     ELSE n
        failed == firstGrowFails \/ (oom /\ failing # {})
        folded == [i \in 1 .. done |-> columnAt(i)]
        bytes2 == Max(bytes1, SetMax({bytesAt(i) : i \in 1 .. done}))
    IN
    [W EXCEPT !.EmergencyDisabled = @ \/ failed,
              !.SumBytes[laneIndex][sumIndex] = IF firstGrowFails THEN bytes0 ELSE bytes2,
              !.SumCols[laneIndex][sumIndex] = @ \o folded,
              !.NextElement[laneIndex][sumIndex] =
                  IF failed THEN @ ELSE StoredNextElement(element, n)]


\* A removal that leaves ColumnStart where it was
RolledColumnStart_Kept(W, removedElementCount) == W.ColumnStart

\* "Roll up the ColumnStart member"
RolledColumnStart(W, removedElementCount) ==
    ElementToColumn(W, removedElementCount)

\* A removal that does not count the summed elements it removes
SumErasedAfter_Kept(W, removedElementCount) == W.SumErasedCount

\* SumErasedCount after the removal: the removed elements that the sums hold
SumErasedAfter(W, removedElementCount) ==
    IF removedElementCount > W.SumStartElement
    THEN W.SumErasedCount + removedElementCount - W.SumStartElement
    ELSE W.SumErasedCount

\* A removal that leaves the subwindows in their places
RotatedSubwindows_InPlace(W, firstKeptSubwindow) == W.Subwindows

\* "Shift kept subwindows to the front of the vector"
RotatedSubwindows(W, firstKeptSubwindow) ==
    [i \in 1 .. Len(W.Subwindows) |->
        W.Subwindows[((i - 1 + firstKeptSubwindow) % Len(W.Subwindows)) + 1]]

\* EncoderPacketWindow::RemoveElements.  The rotation moves the removed
\* subwindows to the back of the vector.
RemoveElements(W, oom) ==
    LET firstKeptSubwindow == W.FirstUnremovedElement \div kSubwindowSize
        removedElementCount == firstKeptSubwindow * kSubwindowSize
        running == W.SumEndElement > W.SumStartElement
        count == USub(W.Count, removedElementCount)
        first == USub(W.FirstUnremovedElement, removedElementCount)
        kept == first .. (count - 1)
        \* "Roll up all the sums past the removal point"
        rolledUp(rolled) ==
            [W EXCEPT
                !.EmergencyDisabled =
                    @ \/ \E l \in Lanes, s \in Sums : rolled[l][s].EmergencyDisabled,
                !.NextElement = [l \in Lanes |-> [s \in Sums |->
                    USub(rolled[l][s].NextElement[l][s], removedElementCount)]],
                !.SumBytes = [l \in Lanes |-> [s \in Sums |-> rolled[l][s].SumBytes[l][s]]],
                !.SumCols = [l \in Lanes |-> [s \in Sums |-> rolled[l][s].SumCols[l][s]]],
                !.SumErasedCount = SumErasedAfter(W, removedElementCount),
                !.SumEndElement =
                    IF @ > removedElementCount THEN @ - removedElementCount ELSE 0,
                !.SumStartElement =
                    IF @ > removedElementCount THEN @ - removedElementCount ELSE 0]
        \* the rotation of the subwindows and the new window bounds
        longest(W2) ==
            [W2 EXCEPT
                !.LongestPacket =
                    SetMax({Len(GetWindowElement(W2, i).Buffer) : i \in kept}),
                !.LaneLongest = [l \in Lanes |->
                    SetMax({Len(GetWindowElement(W2, i).Buffer) :
                                i \in {j \in kept : j % kColumnLaneCount = l}})]]
        shifted(W1, rotated) ==
            longest([W1 EXCEPT
                        !.Subwindows = rotated,
                        !.Count = count,
                        !.ColumnStart = RolledColumnStart(W, removedElementCount),
                        !.FirstUnremovedElement = first])
        restarted(W2) ==
            IF W2.SumEndElement <= W2.SumStartElement
            THEN ResetSums(W2, W2.FirstUnremovedElement)
            ELSE W2
    IN restarted(shifted(
           IF ~running THEN W
           ELSE rolledUp([l \in Lanes |-> [s \in Sums |->
                             GetSum(W, l, s, removedElementCount, oom)]]),
           RotatedSubwindows(W, firstKeptSubwindow)))

(***************************************************************************)
(* EncoderAcknowledgementState, as a record A.  Data is the stored copy of *)
(* the loss-range bytes (zero padding follows it); HasData tells whether   *)
(* the Data pointer is non-null.                                           *)
(***************************************************************************)
NewAck ==
    [Data |-> << >>, HasData |-> FALSE, DataBytes |-> 0,
     Offset |-> 0, LossColumn |-> 0, LossCount |-> 0, NextColumnExpected |-> 0]

HasNegativeAcknowledgements(A) == A.DataBytes > 0

\* EncoderAcknowledgementState::DecodeNextRange
DecodeNextRange(A) ==
    IF A.Offset >= A.DataBytes THEN [A |-> A, ok |-> FALSE]
    ELSE
    LET decoded(r) ==
            IF r.bytes < 0 THEN [A |-> A, ok |-> FALSE]
            ELSE IF A.Offset + r.bytes > A.DataBytes
            THEN [A |-> [A EXCEPT !.Offset = A.Offset + r.bytes], ok |-> FALSE]
            ELSE [A |-> [A EXCEPT !.Offset = A.Offset + r.bytes,
                                  !.LossColumn = AddColumns(@, r.relativeStart),
                                  !.LossCount = r.lossCountM1 + 1],
                  ok |-> TRUE]
    IN decoded(DeserializeHeader_NACKLossRange(A.Data, A.Offset,
                                               A.DataBytes + kPaddingBytes))

\* The test of OnAcknowledgementData for the acknowledgement it has stored
IsDuplicate(A, nextColumnExpected, rest) ==
    /\ A.NextColumnExpected = nextColumnExpected
    /\ A.HasData
    /\ Len(rest) = A.DataBytes
    /\ rest = SubSeq(A.Data, 1, Len(rest))

\* A duplicate that is reported as invalid
IgnoreDuplicate_Rejected(A, W) ==
    [A |-> A, W |-> W, ok |-> FALSE, crashed |-> FALSE]

\* "Ignore duplicate data": what OnAcknowledgementData returns for the
\* acknowledgement it has stored already
IgnoreDuplicate(A, W) == [A |-> A, W |-> W, ok |-> TRUE, crashed |-> FALSE]

\* EncoderAcknowledgementState::OnAcknowledgementData.  With oom the
\* Reallocate of the loss-range copy returns null and the memcpy that
\* follows writes through the null pointer: the process traps (crashed).
OnAcknowledgementData(A, W, data, oom) ==
    LET header == DeserializeHeader_PacketNum(data) IN
    IF header.bytes < 1
    THEN [A |-> A, W |-> W, ok |-> FALSE, crashed |-> FALSE]
    ELSE
    LET nextColumnExpected == header.value
        rest == SubSeq(data, header.bytes + 1, Len(data))
        bytes == Len(rest)
    IN
    IF IsDuplicate(A, nextColumnExpected, rest)
    THEN IgnoreDuplicate(A, W)
    ELSE
    LET W1 == RemoveBefore(W, nextColumnExpected)
        A1 == [A EXCEPT !.NextColumnExpected = nextColumnExpected,
                        !.Offset = 0,
                        !.LossColumn = nextColumnExpected,
                        !.LossCount = 0,
                        !.DataBytes = bytes]
    IN
    IF bytes <= 0
    THEN [A |-> A1, W |-> W1, ok |-> TRUE, crashed |-> FALSE]
    ELSE IF oom /\ (~A.HasData \/ bytes > Len(A.Data))
    THEN [A |-> [A1 EXCEPT !.HasData = FALSE, !.Data = << >>],
          W |-> W1, ok |-> FALSE, crashed |-> TRUE]
    ELSE
    LET d == DecodeNextRange([A1 EXCEPT !.Data = rest, !.HasData = TRUE]) IN
    [A |-> d.A, W |-> W1, ok |-> d.ok, crashed |-> FALSE]

\* An iterator that decodes the next range from the column right after the
\* last one it returned
GetNextLossColumn_NoGap(A) ==
    LET next(d) ==
            IF ~d.ok THEN [A |-> d.A, ok |-> FALSE, column |-> -1]
            ELSE [A |-> [d.A EXCEPT !.LossColumn = IncrementColumn1(@),
                                    !.LossCount = @ - 1],
                  ok |-> TRUE, column |-> d.A.LossColumn]
    IN next(IF A.LossCount <= 0
            THEN DecodeNextRange(A)
            ELSE [A |-> A, ok |-> TRUE])

\* EncoderAcknowledgementState::GetNextLossColumn
GetNextLossColumn(A) ==
    LET next(d) ==
            IF ~d.ok THEN [A |-> d.A, ok |-> FALSE, column |-> -1]
            ELSE [A |-> [d.A EXCEPT !.LossColumn = IncrementColumn1(@),
                                    !.LossCount = @ - 1],
                  ok |-> TRUE, column |-> d.A.LossColumn]
    IN next(IF A.LossCount <= 0
            THEN DecodeNextRange([A EXCEPT !.LossColumn = IncrementColumn1(@)])
            ELSE [A |-> A, ok |-> TRUE])

\* A restart that leaves the iterator at its end
RestartLossIterator_Skipped(A) == A

\* EncoderAcknowledgementState::RestartLossIterator
RestartLossIterator(A) ==
    DecodeNextRange([A EXCEPT !.Offset = 0,
                              !.LossColumn = A.NextColumnExpected,
                              !.LossCount = 0]).A


(***************************************************************************)
(* Encoder                                                                 *)
(***************************************************************************)
\* Payload of a stored original: the buffer without its length prefix
Payload(original) ==
    SubSeq(original.Buffer, original.HeaderBytes + 1, Len(original.Buffer))

NoMetadata == [SumCount |-> 0, LDPCCount |-> 0, ColumnStart |-> 0, Row |-> 0]

\* What a call hands back: its result code, the packet number and the data
\* it stored in the caller's packet, and for Encode the kind of row and the
\* metadata of its footer.  PacketNum = -1 and Data = << >> stand for fields
\* the call did not write / set to null.
Returned(op, result, packetNum, data) ==
    [op |-> op, result |-> result, PacketNum |-> packetNum, Data |-> data,
     kind |-> "none", metadata |-> NoMetadata]

\* SIAMESE_DEBUG_ASSERT(PacketNum >= Window.ColumnStart) of Get and of
\* Retransmit: the condition under which a build with SIAMESE_DEBUG goes on
\* instead of trapping.  The comparison is the one of unsigned.
DebugAssertColumn(W, column) == column >= W.ColumnStart

\* Encoder::Get, as built without SIAMESE_DEBUG
Get(W, column) ==
    IF W.EmergencyDisabled THEN Returned("Get", "Disabled", column, << >>)
    ELSE
    LET element == ColumnToElement(W, column) IN
    IF InvalidElement(W, element)
    THEN Returned("Get", "NeedMoreData", column, << >>)
    ELSE
    LET original == GetWindowElement(W, element) IN
    IF Len(original.Buffer) <= 0
    THEN Returned("Get", "NeedMoreData", column, << >>)
    ELSE Returned("Get", "Success", column, Payload(original))

\* A test that lets every original be resent at once
TooRecent_Never(original, retransmitMsec, nowMsec) == FALSE

\* "If the packet cannot be resent yet"
TooRecent(original, retransmitMsec, nowMsec) ==
    nowMsec - original.LastSendMsec < retransmitMsec

\* Encoder::Retransmit, the loop over the loss columns.  recent lists the
\* columns passed over so far because they were sent less than
\* retransmitMsec ago ("Columns resent recently" of the debug message).
RECURSIVE RetransmitLoop(_, _, _, _, _)
RetransmitLoop(W, A, retransmitMsec, nowMsec, recent) ==
    LET send(g, element, original) ==
            IF TooRecent(original, retransmitMsec, nowMsec)
            THEN RetransmitLoop(W, g.A, retransmitMsec, nowMsec,
                                Append(recent, g.column))
            ELSE [W |-> [W EXCEPT !.Subwindows[(element \div kSubwindowSize) + 1]
                                              [(element % kSubwindowSize) + 1]
                                              .LastSendMsec = nowMsec],
                  A |-> g.A,
                  ret |-> Returned("Retransmit", "Success", g.column,
                                   Payload(original)),
                  recent |-> recent]
        step(g, element) ==
            IF ~g.ok \/ InvalidElement(W, element)
                     \/ Len(GetWindowElement(W, element).Buffer) <= 0
            THEN [W |-> W, A |-> RestartLossIterator(g.A),
                  ret |-> Returned("Retransmit", "NeedMoreData", g.column, << >>),
                  recent |-> recent]
            ELSE send(g, element, GetWindowElement(W, element))
        loss(g) == step(g, ColumnToElement(W, g.column))
    IN loss(GetNextLossColumn(A))

\* Encoder::Retransmit
Retransmit(W, A, retransmitMsec, nowMsec) ==
    IF W.EmergencyDisabled
    THEN [W |-> W, A |-> A, ret |-> Returned("Retransmit", "Disabled", -1, << >>),
          recent |-> << >>]
    ELSE IF ~HasNegativeAcknowledgements(A)
    THEN [W |-> W, A |-> A, ret |-> Returned("Retransmit", "NeedMoreData", -1, << >>),
          recent |-> << >>]
    ELSE RetransmitLoop(W, A, retransmitMsec, nowMsec, << >>)

\* The encoder's own members besides the window and the ack state
NewRows == [NextRow |-> 0, NextParityColumn |-> 0, NextCauchyRow |-> 0]

\* No light columns: what rows other than Siamese rows report
NoLight == [startElement |-> 0, count |-> 0]

\* What Encode hands back; light is the range AddLightColumns drew its
\* elements from
EncodeReturned(result, kind, data, metadata) ==
    [op |-> "Encode", result |-> result, PacketNum |-> -1, Data |-> data,
     kind |-> kind, metadata |-> metadata, light |-> NoLight]

\* A single packet whose stored length keeps the footer
GenerateSinglePacket_Grown(W, R, oom) ==
    [W |-> [W EXCEPT !.Subwindows[(W.FirstUnremovedElement \div kSubwindowSize) + 1]
                                 [(W.FirstUnremovedElement % kSubwindowSize) + 1]
                                 .Buffer = @ \o << 0 >>],
     R |-> R,
     ret |-> EncodeReturned("Success", "single",
                GetWindowElement(W, W.FirstUnremovedElement).Buffer,
                [SumCount |-> 1, LDPCCount |-> 1,
                 ColumnStart |-> GetWindowElement(W, W.FirstUnremovedElement).Column,
                 Row |-> 0])]

\* Encoder::GenerateSinglePacket: the footer is written behind the stored
\* bytes of the original, whose length is set back
GenerateSinglePacket(W, R, oom) ==
    LET original == GetWindowElement(W, W.FirstUnremovedElement) IN
    IF oom = "buffer"
    THEN [W |-> [W EXCEPT !.EmergencyDisabled = TRUE], R |-> R,
          ret |-> EncodeReturned("Disabled", "none", << >>, NoMetadata)]
    ELSE [W |-> W, R |-> R,
          ret |-> EncodeReturned("Success", "single", original.Buffer,
                     [SumCount |-> 1, LDPCCount |-> 1,
                      ColumnStart |-> original.Column, Row |-> 0])]

\* A row counter that wraps one row late
NextCauchyRowAfter_Late(cauchyRow) ==
    IF cauchyRow + 1 > kCauchyMaxRows THEN 0 ELSE cauchyRow + 1

\* "Select Cauchy row number": the counter after the row
NextCauchyRowAfter(cauchyRow) ==
    IF cauchyRow + 1 >= kCauchyMaxRows THEN 0 ELSE cauchyRow + 1

\* A parity row that leaves the next parity column at the first column it
\* covers.  The row is reported by the columns of the
\* originals it combines, first element first.
GenerateCauchyPacket_ParityKept(W, R, oom) ==
    LET firstElement == W.FirstUnremovedElement
        unacknowledgedCount == GetUnacknowledgedCount(W)
        columnStart == ElementToColumn(W, firstElement)
        nextParityElement == ColumnToElement(W, R.NextParityColumn)
        parity == nextParityElement <= firstElement
                      \/ IsColumnDeltaNegative(nextParityElement)
        cols == [i \in 1 .. (W.Count - firstElement) |->
                    GetWindowElement(W, firstElement + i - 1).Column]
    IN
    IF oom = "buffer"
    THEN [W |-> [W EXCEPT !.EmergencyDisabled = TRUE], R |-> R,
          ret |-> EncodeReturned("Disabled", "none", << >>, NoMetadata)]
    ELSE IF parity
    THEN [W |-> W,
          R |-> [R EXCEPT !.NextParityColumn =
                              columnStart],
          ret |-> EncodeReturned("Success", "parity", cols,
                     [SumCount |-> unacknowledgedCount,
                      LDPCCount |-> unacknowledgedCount,
                      ColumnStart |-> columnStart, Row |-> 0])]
    ELSE [W |-> W,
          R |-> [R EXCEPT !.NextCauchyRow = NextCauchyRowAfter(@)],
          ret |-> EncodeReturned("Success", "cauchy", cols,
                     [SumCount |-> unacknowledgedCount,
                      LDPCCount |-> unacknowledgedCount,
                      ColumnStart |-> columnStart, Row |-> R.NextCauchyRow + 1])]

\* Encoder::GenerateCauchyPacket.  The row is reported by the columns of the
\* originals it combines, first element first.
GenerateCauchyPacket(W, R, oom) ==
    LET firstElement == W.FirstUnremovedElement
        unacknowledgedCount == GetUnacknowledgedCount(W)
        columnStart == ElementToColumn(W, firstElement)
        nextParityElement == ColumnToElement(W, R.NextParityColumn)
        parity == nextParityElement <= firstElement
                      \/ IsColumnDeltaNegative(nextParityElement)
        cols == [i \in 1 .. (W.Count - firstElement) |->
                    GetWindowElement(W, firstElement + i - 1).Column]
    IN
    IF oom = "buffer"
    THEN [W |-> [W EXCEPT !.EmergencyDisabled = TRUE], R |-> R,
          ret |-> EncodeReturned("Disabled", "none", << >>, NoMetadata)]
    ELSE IF parity
    THEN [W |-> W,
          R |-> [R EXCEPT !.NextParityColumn =
                              AddColumns(columnStart, unacknowledgedCount)],
          ret |-> EncodeReturned("Success", "parity", cols,
                     [SumCount |-> unacknowledgedCount,
                      LDPCCount |-> unacknowledgedCount,
                      ColumnStart |-> columnStart, Row |-> 0])]
    ELSE [W |-> W,
          R |-> [R EXCEPT !.NextCauchyRow = NextCauchyRowAfter(@)],
          ret |-> EncodeReturned("Success", "cauchy", cols,
                     [SumCount |-> unacknowledgedCount,
                      LDPCCount |-> unacknowledgedCount,
                      ColumnStart |-> columnStart, Row |-> R.NextCauchyRow + 1])]

\* The sums of a lane that a row opcode reads: bit s adds sum s to the
\* recovery packet, bit s + 3 adds it to the product workspace
OpcodeBit(opcode, bit) == (opcode \div (2 ^ bit)) % 2 = 1

OpcodeSelects(opcode, s) ==
    OpcodeBit(opcode, s) \/ OpcodeBit(opcode, s + kColumnSumCount)

\* Sums whose end is not recorded
DenseSumEnd_Kept(W) == W.SumEndElement

\* "Keep track of where the sum ended"
DenseSumEnd(W) == W.Count

\* Encoder::AddDenseColumns: GetSum up to Count for every selected sum
AddDenseColumns(W, opcodes, oom) ==
    LET summed(got) ==
            [W EXCEPT
                !.EmergencyDisabled =
                    @ \/ \E l \in Lanes, s \in Sums : got[l][s].EmergencyDisabled,
                !.NextElement =
                    [l \in Lanes |-> [s \in Sums |-> got[l][s].NextElement[l][s]]],
                !.SumBytes = [l \in Lanes |-> [s \in Sums |-> got[l][s].SumBytes[l][s]]],
                !.SumCols = [l \in Lanes |-> [s \in Sums |-> got[l][s].SumCols[l][s]]],
                !.SumEndElement = DenseSumEnd(W)]
    IN summed([l \in Lanes |-> [s \in Sums |->
                  IF OpcodeSelects(opcodes[l], s)
                  THEN GetSum(W, l, s, W.Count, oom) ELSE W]])

\* Light columns drawn from the start of the window
AddLightColumns_FromZero(W) ==
    [startElement |-> 0, count |-> USub(W.SumEndElement, W.FirstUnremovedElement)]

\* Encoder::AddLightColumns: the range the elements of the pairs are drawn
\* from.  The bytes added to the recovery packet are not modelled.
AddLightColumns(W) ==
    [startElement |-> W.FirstUnremovedElement,
     count |-> USub(W.SumEndElement, W.FirstUnremovedElement)]

\* "startElement + (prng.Next() % count)": the element drawn when the
\* generator returns r
LightElement(light, r) == light.startElement + (r % light.count)

\* A row counter that wraps one row late
NextRowAfter_Late(row) == IF row + 1 > kRowPeriod THEN 0 ELSE row + 1

\* "Advance row index": the counter after the row
NextRowAfter(row) == IF row + 1 >= kRowPeriod THEN 0 ELSE row + 1

\* Encoder::Encode from "Remove any data from the window at this point" on:
\* the Siamese row
GenerateSiamesePacket(W, R, unacknowledgedCount, opcodes, oom) ==
    LET row == R.NextRow
        R1 == [R EXCEPT !.NextRow = NextRowAfter(@)]
        written(W2) ==
            [W |-> W2, R |-> R1,
             ret |-> [EncodeReturned("Success", "siamese", << >>,
                        [SumCount |-> USub(W2.SumEndElement + W2.SumErasedCount,
                                           W2.SumStartElement),
                         LDPCCount |-> unacknowledgedCount,
                         ColumnStart |-> W2.SumColumnStart, Row |-> row])
                         EXCEPT !.light = AddLightColumns(W2)]]
        generated(W1) ==
            IF oom = "buffer"
            THEN [W |-> [W1 EXCEPT !.EmergencyDisabled = TRUE], R |-> R1,
                  ret |-> EncodeReturned("Disabled", "none", << >>, NoMetadata)]
            ELSE written(AddDenseColumns(W1, opcodes, oom = "sums"))
    IN generated(IF W.FirstUnremovedElement >= kEncoderRemoveThreshold
                 THEN RemoveElements(W, oom = "sums") ELSE W)

\* A test that lets one original too many into the Cauchy rows
BelowCauchyThreshold_OffByOne(unacknowledgedCount) ==
    unacknowledgedCount <= SIAMESE_CAUCHY_THRESHOLD + 1

\* "If the number of packets in flight is small enough, use Cauchy rows"
BelowCauchyThreshold(unacknowledgedCount) ==
    unacknowledgedCount <= SIAMESE_CAUCHY_THRESHOLD

\* Encoder::Encode.  opcodes[l] is GetRowOpcode(l, row) of the row generated;
\* oom names the allocation that fails, if any: "buffer" (the recovery
\* buffer, or the growth of the single packet) or "sums" (the growth of a
\* lane sum inside GetSum).
Encode(W, R, opcodes, oom) ==
    IF W.EmergencyDisabled
    THEN [W |-> W, R |-> R,
          ret |-> EncodeReturned("Disabled", "none", << >>, NoMetadata)]
    ELSE IF W.Count <= 0
    THEN [W |-> W, R |-> R,
          ret |-> EncodeReturned("NeedMoreData", "none", << >>, NoMetadata)]
    ELSE
    LET unacknowledgedCount == GetUnacknowledgedCount(W)
        newSumCountUB == USub(W.Count + W.SumErasedCount, W.SumStartElement)
    IN
    IF unacknowledgedCount = 1 THEN GenerateSinglePacket(W, R, oom)
    ELSE IF W.SumEndElement <= W.SumStartElement
            \/ newSumCountUB >= SIAMESE_MAX_PACKETS
    THEN IF BelowCauchyThreshold(unacknowledgedCount)
         THEN GenerateCauchyPacket(W, R, oom)
         ELSE GenerateSiamesePacket(ResetSums(W, W.FirstUnremovedElement), R,
                                    unacknowledgedCount, opcodes, oom)
    ELSE IF unacknowledgedCount <= SIAMESE_SUM_RESET_THRESHOLD
            \/ newSumCountUB <= SIAMESE_CAUCHY_THRESHOLD
    THEN GenerateCauchyPacket([W EXCEPT !.SumEndElement = W.SumStartElement], R, oom)
    ELSE GenerateSiamesePacket(W, R, unacknowledgedCount, opcodes, oom)

\* Encoder::GetStatistics
GetStatistics(W) == Returned("GetStatistics", "Success", -1, << >>)


(***************************************************************************)
(* Allocator: windows of kWindowMaxUnits units, each with a bitmask of the *)
(* units in use, kept in the preferred list or in the full list.  A window *)
(* pointer is an index into Windows and NullWindow stands for nullptr.  A  *)
(* bitmask is written as the set of its runs <<first, end>> of set bits.   *)
(***************************************************************************)
kUnitSize == 16

kWindowMaxUnits == 2048

kPreallocatedWindows == 2

kOverallocationBytes == 8

kPreferredThresholdUnits == (3 * kWindowMaxUnits) \div 4

kFallbackThresholdUnits == kWindowMaxUnits \div 4

kWordBits == 64

NullWindow == 0

\* CustomBitSet::Check
Check(Used, bit) == \E r \in Used : r[1] <= bit /\ bit < r[2]

\* CustomBitSet::RangePopcount
RECURSIVE RangePopcount(_, _, _)
RangePopcount(Used, bitStart, bitEnd) ==
    IF Used = {} \/ bitStart >= bitEnd THEN 0
    ELSE LET r == CHOOSE x \in Used : TRUE
             first == IF r[1] > bitStart THEN r[1] ELSE bitStart
             end == IF r[2] < bitEnd THEN r[2] ELSE bitEnd
         IN (IF end > first THEN end - first ELSE 0)
                + RangePopcount(Used \ { r }, bitStart, bitEnd)

\* CustomBitSet::FindFirstClear
RECURSIVE FindFirstClear(_, _)
FindFirstClear(Used, bitStart) ==
    IF bitStart >= kWindowMaxUnits THEN kWindowMaxUnits
    ELSE IF Check(Used, bitStart)
    THEN FindFirstClear(Used,
             (CHOOSE r \in Used : r[1] <= bitStart /\ bitStart < r[2])[2])
    ELSE bitStart

\* CustomBitSet::FindFirstSet.  The search runs over whole words: it passes
\* over bitEnd to the end of the word that holds bitEnd - 1, and to the end
\* of the word that holds bitStart.
FindFirstSet(Used, bitStart, bitEnd) ==
    LET wordStart == bitStart \div kWordBits
        wordEnd == (bitEnd + kWordBits - 1) \div kWordBits
        searchEnd == IF wordEnd > wordStart + 1
                     THEN wordEnd * kWordBits
                     ELSE (wordStart + 1) * kWordBits
        starts == { r[1] : r \in { x \in Used : x[1] >= bitStart /\ x[1] < searchEnd } }
    IN
    IF Check(Used, bitStart) THEN bitStart
    ELSE IF starts # {}
    THEN CHOOSE s \in starts : \A t \in starts : s <= t
    ELSE bitEnd

\* CustomBitSet::ClearRange
ClearRange(Used, bitStart, bitEnd) ==
    IF bitStart >= bitEnd THEN Used
    ELSE { << r[1], IF r[2] < bitStart THEN r[2] ELSE bitStart >> :
               r \in { x \in Used : x[1] < bitStart } }
         \cup
         { << IF r[1] > bitEnd THEN r[1] ELSE bitEnd, r[2] >> :
               r \in { x \in Used : x[2] > bitEnd } }

\* CustomBitSet::SetRange.  Runs that touch are written as one run.
SetRange(Used, bitStart, bitEnd) ==
    IF bitStart >= bitEnd THEN Used
    ELSE LET cleared == ClearRange(Used, bitStart, bitEnd)
             before == { r \in cleared : r[2] = bitStart }
             after == { r \in cleared : r[1] = bitEnd }
             first == IF before # {} THEN (CHOOSE r \in before : TRUE)[1]
                      ELSE bitStart
             end == IF after # {} THEN (CHOOSE r \in after : TRUE)[2]
                    ELSE bitEnd
         IN (cleared \ (before \cup after)) \cup { << first, end >> }

\* WindowHeader of a preallocated window
PreallocatedWindow(next) ==
    [Used |-> {}, FreeUnitCount |-> kWindowMaxUnits, ResumeScanOffset |-> 0,
     Next |-> next, Prev |-> NullWindow, InFullList |-> FALSE,
     Preallocated |-> TRUE]

\* Allocator::Allocator.  Live holds the allocations handed out and not yet
\* freed, each by its AllocationHeader: the window (NullWindow for a fallback
\* allocation), the unit it starts at (for a fallback allocation a number
\* that tells it from the others) and its units.
NewAllocator ==
    [Windows |-> [i \in 1 .. kPreallocatedWindows |-> PreallocatedWindow(i - 1)],
     PreferredWindowsHead |-> kPreallocatedWindows,
     PreferredWindowsTail |-> 1,
     PreferredWindowsCount |-> kPreallocatedWindows,
     FullWindowsHead |-> NullWindow,
     FullWindowsCount |-> 0,
     Live |-> {}]

\* Allocator::Allocator when the preallocation fails
NewAllocatorWithoutChunk ==
    [NewAllocator EXCEPT !.Windows = << >>,
                         !.PreferredWindowsHead = NullWindow,
                         !.PreferredWindowsTail = NullWindow,
                         !.PreferredWindowsCount = 0]

\* nullptr as the result of Allocate and Reallocate
NullPtr == [Header |-> NullWindow, UnitStart |-> -1, UsedUnits |-> 0]

\* What a call of the allocator leaves: the allocator, the pointer returned
\* and how the call ended ("ok", "crash" on a write through a null pointer,
\* "hang" in a loop that does not end)
AllocatorResult(A, ptr, outcome) == [A |-> A, ptr |-> ptr, outcome |-> outcome]

\* The windows of a list in the order of their Next pointers, limit at most
RECURSIVE ListFrom(_, _, _)
ListFrom(Windows, node, limit) ==
    IF node = NullWindow \/ limit = 0 THEN << >>
    ELSE << node >> \o ListFrom(Windows, Windows[node].Next, limit - 1)

\* The loop of Allocator::MoveFirstFewWindowsToFull.  m holds the windows and
\* the locals moveHead, keepHead, keepTail and movedCount.
RECURSIVE MoveLoop(_, _, _, _)
MoveLoop(m, windowHeader, stopWindow, fuel) ==
    IF windowHeader = stopWindow THEN m
    ELSE IF windowHeader = NullWindow THEN [m EXCEPT !.outcome = "crash"]
    ELSE IF fuel = 0 THEN [m EXCEPT !.outcome = "hang"]
    ELSE
    LET next == m.Windows[windowHeader].Next IN
    IF m.Windows[windowHeader].FreeUnitCount >= kPreferredThresholdUnits
    THEN LET reset == [m.Windows EXCEPT ![windowHeader].ResumeScanOffset = 0] IN
         IF m.keepTail # NullWindow
         THEN MoveLoop([m EXCEPT !.Windows =
                               [reset EXCEPT ![m.keepTail].Next = windowHeader]],
                       next, stopWindow, fuel - 1)
         ELSE MoveLoop([m EXCEPT !.Windows = reset,
                                 !.keepHead = windowHeader,
                                 !.keepTail = windowHeader],
                       next, stopWindow, fuel - 1)
    ELSE LET linked == [m.Windows EXCEPT ![windowHeader].InFullList = TRUE,
                                         ![windowHeader].Next = m.moveHead]
             backed == IF m.moveHead # NullWindow
                       THEN [linked EXCEPT ![m.moveHead].Prev = windowHeader]
                       ELSE linked
         IN MoveLoop([m EXCEPT !.Windows =
                             [backed EXCEPT ![windowHeader].Prev = NullWindow],
                               !.movedCount = @ + 1,
                               !.moveHead = windowHeader],
                     next, stopWindow, fuel - 1)

\* Allocator::MoveFirstFewWindowsToFull.  Allocate calls it with a stopWindow
\* that its scan has reached from PreferredWindowsHead, and the loop changes
\* the Next pointer of windows it has passed only: it takes the path of the
\* scan and visits every window at most once.
MoveFirstFewWindowsToFull(A, stopWindow) ==
    LET Relinked(m) ==
            LET lists == [A EXCEPT !.Windows = m.Windows,
                                   !.FullWindowsHead = m.moveHead,
                                   !.FullWindowsCount = @ + m.movedCount,
                                   !.PreferredWindowsCount = @ - m.movedCount]
            IN
            IF m.outcome # "ok" THEN AllocatorResult(A, NullPtr, m.outcome)
            ELSE IF stopWindow # NullWindow
            THEN IF m.keepHead # NullWindow
                 THEN IF A.PreferredWindowsTail = NullWindow
                      THEN AllocatorResult(A, NullPtr, "crash")
                      ELSE AllocatorResult(
                               [lists EXCEPT
                                   !.PreferredWindowsHead = stopWindow,
                                   !.Windows[A.PreferredWindowsTail].Next = m.keepHead,
                                   !.PreferredWindowsTail = m.keepTail],
                               NullPtr, "ok")
                 ELSE AllocatorResult(
                          [lists EXCEPT !.PreferredWindowsHead = stopWindow],
                          NullPtr, "ok")
            ELSE AllocatorResult([lists EXCEPT !.PreferredWindowsHead = m.keepHead,
                                               !.PreferredWindowsTail = m.keepTail],
                                 NullPtr, "ok")
    IN Relinked(MoveLoop([Windows |-> A.Windows, moveHead |-> A.FullWindowsHead,
                          keepHead |-> NullWindow, keepTail |-> NullWindow,
                          movedCount |-> 0, outcome |-> "ok"],
                         A.PreferredWindowsHead, stopWindow,
                         2 * Len(A.Windows) + 1))

\* The units of an allocation of bytes bytes, with its AllocationHeader
UnitsFor(bytes) ==
    (bytes + kOverallocationBytes + kUnitSize - 1) \div kUnitSize + 1

\* "Walk the holes in the bitmask" of Allocator::Allocate: the first unit of
\* the region found, -1 when the window has none
RECURSIVE WalkHoles(_, _, _)
WalkHoles(Used, regionStart, units) ==
    IF regionStart >= kWindowMaxUnits THEN -1
    ELSE LET start == FindFirstClear(Used, regionStart) IN
         IF start + units > kWindowMaxUnits THEN -1
         ELSE LET regionEnd == FindFirstSet(Used, start + 1, start + units) IN
              IF regionEnd - start < units
              THEN WalkHoles(Used, regionEnd + 1, units)
              ELSE start

\* The loop of Allocator::Allocate over the preferred list: the first window
\* with a region for units units.  The state does not change while the loop
\* runs, so it never ends once it comes back to a window it has passed.
RECURSIVE ScanWindows(_, _, _, _)
ScanWindows(A, windowHeader, units, passed) ==
    IF windowHeader = NullWindow
    THEN [windowHeader |-> NullWindow, regionStart |-> -1, outcome |-> "ok"]
    ELSE IF windowHeader \in passed
    THEN [windowHeader |-> NullWindow, regionStart |-> -1, outcome |-> "hang"]
    ELSE LET w == A.Windows[windowHeader]
             regionStart == IF w.FreeUnitCount < units THEN -1
                            ELSE WalkHoles(w.Used, w.ResumeScanOffset, units)
         IN IF regionStart < 0
            THEN ScanWindows(A, w.Next, units, passed \cup { windowHeader })
            ELSE [windowHeader |-> windowHeader, regionStart |-> regionStart,
                  outcome |-> "ok"]

\* Allocator::AllocateFromNewWindow.  SIMDSafeAllocate returns zeroed memory,
\* which leaves Prev at nullptr.
AllocateFromNewWindow(A, units, oom) ==
    IF oom # "none" THEN AllocatorResult(A, NullPtr, "ok")
    ELSE
    LET windowHeader == Len(A.Windows) + 1
        header == [Used |-> SetRange({}, 0, units),
                   FreeUnitCount |-> kWindowMaxUnits - units,
                   ResumeScanOffset |-> units,
                   Next |-> A.PreferredWindowsHead, Prev |-> NullWindow,
                   InFullList |-> FALSE, Preallocated |-> FALSE]
        windows == Append(
            IF A.PreferredWindowsHead # NullWindow
            THEN [A.Windows EXCEPT ![A.PreferredWindowsHead].Prev = windowHeader]
            ELSE A.Windows, header)
        ptr == [Header |-> windowHeader, UnitStart |-> 0, UsedUnits |-> units]
    IN AllocatorResult(
           [A EXCEPT !.Windows = windows,
                     !.PreferredWindowsTail =
                         IF A.PreferredWindowsHead # NullWindow THEN @
                         ELSE windowHeader,
                     !.PreferredWindowsHead = windowHeader,
                     !.PreferredWindowsCount = @ + 1,
                     !.Live = @ \cup { ptr }],
           ptr, "ok")

\* The pointer that FallbackAllocate makes of a null pointer: ptr + kUnitSize
WildPtr == [Header |-> NullWindow, UnitStart |-> -1, UsedUnits |-> 1]

\* Allocator::FallbackAllocate.  When SIMDSafeAllocate returns nullptr the
\* AllocationHeader is written through the null pointer: the process traps
\* (oom = "trap"), or, where the first bytes of memory can be written, the
\* call returns ptr + kUnitSize (oom = "wild").
FallbackAllocate(A, bytes, oom) ==
    LET units == UnitsFor(bytes)
        used == { p.UnitStart : p \in { x \in A.Live : x.Header = NullWindow } }
        ptr == [Header |-> NullWindow,
                UnitStart |-> CHOOSE i \in 0 .. Cardinality(used) : i \notin used,
                UsedUnits |-> units]
    IN
    IF oom = "trap" THEN AllocatorResult(A, NullPtr, "crash")
    ELSE IF oom = "wild" THEN AllocatorResult(A, WildPtr, "ok")
    ELSE AllocatorResult([A EXCEPT !.Live = @ \cup { ptr }], ptr, "ok")

\* Allocator::Allocate.  oom tells whether the system allocation that the
\* call may make fails ("trap", "wild") or not ("none").
Allocate(A, bytes, oom) ==
    IF bytes <= 0 THEN AllocatorResult(A, NullPtr, "ok")
    ELSE
    LET units == UnitsFor(bytes)
        Returning(moved, ptr) ==
            IF moved.outcome # "ok" THEN moved
            ELSE AllocatorResult(moved.A, ptr, "ok")
        Carve(windowHeader, regionStart) ==
            LET ptr == [Header |-> windowHeader, UnitStart |-> regionStart,
                        UsedUnits |-> units]
                carved == [A EXCEPT
                    !.Windows[windowHeader].FreeUnitCount = @ - units,
                    !.Windows[windowHeader].Used =
                        SetRange(@, regionStart, regionStart + units),
                    !.Windows[windowHeader].ResumeScanOffset = regionStart + units,
                    !.Live = @ \cup { ptr }]
                moveStopWindow ==
                    IF regionStart + units + units > kWindowMaxUnits
                    THEN A.Windows[windowHeader].Next
                    ELSE windowHeader
            IN Returning(MoveFirstFewWindowsToFull(carved, moveStopWindow), ptr)
        FromNewWindow(moved) ==
            IF moved.outcome # "ok" THEN moved
            ELSE AllocateFromNewWindow(moved.A, units, oom)
        Scanned(found) ==
            IF found.outcome # "ok" THEN AllocatorResult(A, NullPtr, found.outcome)
            ELSE IF found.windowHeader # NullWindow
            THEN Carve(found.windowHeader, found.regionStart)
            ELSE FromNewWindow(MoveFirstFewWindowsToFull(A, NullWindow))
    IN
    IF units > kFallbackThresholdUnits THEN FallbackAllocate(A, bytes, oom)
    ELSE Scanned(ScanWindows(A, A.PreferredWindowsHead, units, {}))

\* Allocator::Free of a pointer that Allocate or Reallocate has returned and
\* that has not been freed since
Free(A, ptr) ==
    IF ptr = NullPtr THEN A
    ELSE IF ptr.Header = NullWindow THEN [A EXCEPT !.Live = @ \ { ptr }]
    ELSE
    LET windowHeader == ptr.Header
        units == ptr.UsedUnits
        regionStart == ptr.UnitStart
        regionEnd == regionStart + units
        w == A.Windows[windowHeader]
        freed == [A EXCEPT
            !.Live = @ \ { ptr },
            !.Windows[windowHeader].ResumeScanOffset =
                IF @ > regionStart THEN regionStart ELSE @,
            !.Windows[windowHeader].Used = ClearRange(@, regionStart, regionEnd),
            !.Windows[windowHeader].FreeUnitCount = @ + units]
        prev == w.Prev
        next == w.Next
        unlinked ==
            LET a == IF prev # NullWindow
                     THEN [freed EXCEPT !.Windows[prev].Next = next]
                     ELSE [freed EXCEPT !.FullWindowsHead = next]
            IN IF next # NullWindow
               THEN [a EXCEPT !.Windows[next].Prev = prev]
               ELSE a
        appended ==
            LET a == [unlinked EXCEPT
                         !.Windows[windowHeader].InFullList = FALSE,
                         !.Windows[windowHeader].ResumeScanOffset = 0,
                         !.Windows[windowHeader].Prev = NullWindow,
                         !.Windows[windowHeader].Next = NullWindow,
                         !.FullWindowsCount = @ - 1,
                         !.PreferredWindowsCount = @ + 1,
                         !.PreferredWindowsTail = windowHeader]
            IN IF unlinked.PreferredWindowsTail # NullWindow
               THEN [a EXCEPT !.Windows[unlinked.PreferredWindowsTail].Next =
                                  windowHeader]
               ELSE [a EXCEPT !.PreferredWindowsHead = windowHeader]
    IN
    IF w.FreeUnitCount + units >= kPreferredThresholdUnits /\ w.InFullList
    THEN appended
    ELSE freed

\* Allocator::Reallocate of such a pointer, or of nullptr
Reallocate(A, ptr, bytes, oom) ==
    IF ptr = NullPtr THEN Allocate(A, bytes, oom)
    ELSE IF bytes <= 0 THEN AllocatorResult(Free(A, ptr), NullPtr, "ok")
    ELSE
    LET existingUnits == ptr.UsedUnits
        requestedUnits == (bytes + kUnitSize - 1) \div kUnitSize + 1
        Moved(allocated) ==
            IF allocated.outcome # "ok" \/ allocated.ptr = NullPtr
            THEN allocated
            ELSE AllocatorResult(Free(allocated.A, ptr), allocated.ptr, "ok")
    IN
    IF requestedUnits <= existingUnits THEN AllocatorResult(A, ptr, "ok")
    ELSE Moved(Allocate(A, bytes, oom))

\* The checks that Allocator::IntegrityCheck makes of every window
WindowIntegrity(w) ==
    /\ w.ResumeScanOffset <= kWindowMaxUnits
    /\ RangePopcount(w.Used, 0, kWindowMaxUnits)
           = kWindowMaxUnits - w.FreeUnitCount

\* Allocator::IntegrityCheck: what it returns.  Its loops stop at the count
\* of the list, so they end on a list that runs in a circle.
IntegrityCheck(A) ==
    LET preferred == ListFrom(A.Windows, A.PreferredWindowsHead,
                              A.PreferredWindowsCount + 1)
        full == ListFrom(A.Windows, A.FullWindowsHead, A.FullWindowsCount + 1)
        different(list) ==
            \A ii, jj \in DOMAIN list : list[ii] = list[jj] => ii = jj
        nodes(list) == { list[ii] : ii \in DOMAIN list }
    IN
    /\ Len(preferred) <= A.PreferredWindowsCount
    /\ different(preferred)
    /\ \A windowHeader \in nodes(preferred) :
           /\ ~A.Windows[windowHeader].InFullList
           /\ A.Windows[windowHeader].FreeUnitCount > 0
           /\ A.Windows[windowHeader].FreeUnitCount <= kWindowMaxUnits
           /\ WindowIntegrity(A.Windows[windowHeader])
    /\ Len(full) <= A.FullWindowsCount
    /\ nodes(full) \cap nodes(preferred) = {}
    /\ different(full)
    /\ \A windowHeader \in nodes(full) :
           /\ A.Windows[windowHeader].InFullList
           /\ A.Windows[windowHeader].FreeUnitCount <= kPreferredThresholdUnits
           /\ WindowIntegrity(A.Windows[windowHeader])
    /\ Cardinality({ windowHeader \in nodes(preferred) \cup nodes(full) :
                         A.Windows[windowHeader].Preallocated })
           = kPreallocatedWindows

(***************************************************************************)
(* The logging worker (SiameseLogging.cpp).  Logger.cpp is the same code   *)
(* under another namespace.  A message is the number of its Write call;    *)
(* stdout holds the messages that OutputWorker::Log wrote and, as -n, the  *)
(* reports "Queue overrun. Lost n log messages".  QueueLock is free        *)
(* between two steps: every step is a stretch of code that takes the lock  *)
(* and leaves it, by unlocking it or by waiting on a condition.            *)
(***************************************************************************)
Clients == 1 .. MaxClients

\* OutputWorker::kWorkQueueLimit
kWorkQueueLimit == 4096

\* OutputWorker::OutputWorker, which ends in Start: the thread is created
NewOutputWorker ==
    [QueuePublic |-> << >>, QueuePrivate |-> << >>, Overrun |-> 0,
     FlushRequested |-> FALSE, Terminated |-> FALSE, Thread |-> TRUE,
     stdout |-> << >>]

\* The worker thread at the head of its loop and the callers outside of
\* every call; no message was passed to Write
NewThreads ==
    [Loop |-> [pc |-> "while", overrun |-> 0, flushRequested |-> FALSE],
     client |-> [t \in Clients |-> [pc |-> "idle", todo |-> << >>]],
     passed |-> 0,
     dropped |-> {},
     writesLeft |-> 0]

\* The messages first .. last in this order
Batch(first, last) == [i \in 1 .. (last - first + 1) |-> first + i - 1]

\* The locked part of OutputWorker::Write
Write(W, message) ==
    IF Len(W.QueuePublic) >= kWorkQueueLimit
    THEN [W EXCEPT !.Overrun = @ + 1]
    ELSE [W EXCEPT !.QueuePublic = Append(@, message)]

\* The worker copies the public queue and leaves it as it is
Swap_Copied(W) ==
    [W EXCEPT !.QueuePrivate = W.QueuePublic,
              !.Overrun = 0,
              !.FlushRequested = FALSE]

\* The locked part of OutputWorker::Loop after the wait: the queues are
\* swapped, Overrun and FlushRequested are taken and reset
Swap(W) ==
    [W EXCEPT !.QueuePublic = W.QueuePrivate,
              !.QueuePrivate = W.QueuePublic,
              !.Overrun = 0,
              !.FlushRequested = FALSE]

\* The unlocked part of OutputWorker::Loop: the private queue and the
\* overrun report are written, the queue is cleared
Log(W, overrun) ==
    [W EXCEPT !.stdout = @ \o W.QueuePrivate
                           \o (IF overrun > 0 THEN << 0 - overrun >> ELSE << >>),
              !.QueuePrivate = << >>]

\* QueueCondition.notify_all(): the worker, if it waits, is woken
NotifyQueueCondition(T) ==
    IF T.Loop.pc = "wait" THEN [T EXCEPT !.Loop.pc = "woken"] ELSE T

\* FlushCondition.notify_all(): the callers that wait in Flush are woken
NotifyFlushCondition(T) ==
    [T EXCEPT !.client = [t \in Clients |->
        IF @[t].pc = "FlushCondition.wait"
        THEN [@[t] EXCEPT !.pc = "flushed"]
        ELSE @[t]]]

\* The messages that stdout shows, in the order written
WrittenMessages(W) == SelectSeq(W.stdout, LAMBDA m : m > 0)

\* The sum of the numbers of lost
RECURSIVE SumLost(_)
SumLost(lost) == IF lost = << >> THEN 0 ELSE SumLost(Tail(lost)) - Head(lost)

\* The number of lost messages that the reports on stdout add up to
ReportedOverrun(out) == SumLost(SelectSeq(out, LAMBDA m : m < 0))

(***************************************************************************)
(* The encoder as a state machine                                          *)
(***************************************************************************)
VARIABLES
    Window,     \* EncoderPacketWindow
    Ack,        \* EncoderAcknowledgementState
    Rows,       \* NextRow, NextParityColumn, NextCauchyRow
    now,        \* GetTimeMsec()
    ret,        \* what the last call returned; for Retransmit also the
                \* retransmitMsec it was given and the columns it passed over
    crashed,    \* the process trapped on a write through a null pointer
    addsLeft,   \* successful Add calls still to explore
    added,      \* the successful Add calls so far: packet number and payload
    rtx,        \* the acknowledgement that returned Success last (its bytes,
                \* and whether it repeated the stored one) and what the
                \* Retransmit(0) calls made in a row since then returned
    Alloc,      \* Allocator, and the allocations that are live
    OutputWorker,   \* logging::OutputWorker and what it wrote to stdout
    Threads     \* where the worker thread and the callers of the worker
                \* are in their code, and the messages passed to Write

vars ==
    << Window, Ack, Rows, now, ret, crashed, addsLeft, added, rtx, Alloc,
       OutputWorker, Threads >>

\* The logging worker of an encoder or allocator that logs nothing
LoggerUnused ==
    /\ OutputWorker = NewOutputWorker
    /\ Threads = NewThreads

\* rtx while no such sequence of calls is under way
NoHistory == [active |-> FALSE, dup |-> FALSE, ack |-> << >>, calls |-> << >>]

(***************************************************************************)
(* Inputs of the calls                                                     *)
(***************************************************************************)
\* The payload handed to Add for the packet that gets the given column:
\* every column has its own bytes, one or two of them
PayloadFor(column) ==
    LET b == (column % 255) + 1 IN
    IF column % 3 = 1 THEN << b, b >> ELSE << b >>

Payloads(W) == { PayloadFor(W.NextColumn) }

\* Columns handed to Get and RemoveBefore, relative to the next column to
\* assign: columns of the window's last originals, the column after the
\* window, and columns that leave one original more than
\* SIAMESE_CAUCHY_THRESHOLD, or a number of originals between the two
\* thresholds, unacknowledged
GetOffsets == { -2, 0 }
RemoveOffsets == { -65, -40, -2, -1, 0 }

InputColumn(W, off) == (W.NextColumn + off + kColumnPeriod) % kColumnPeriod

RECURSIVE SerializeRanges(_)
SerializeRanges(ranges) ==
    IF ranges = << >> THEN << >>
    ELSE SerializeHeader_NACKLossRange(Head(ranges)[1], Head(ranges)[2])
             \o SerializeRanges(Tail(ranges))

AckBytes(nextColumnExpected, ranges, tail) ==
    SerializeHeader_PacketNum(nextColumnExpected) \o SerializeRanges(ranges) \o tail

\* Acknowledgements without a readable header
BadHeaders == { << 128 >> }

\* Acknowledgements: the next column expected (relative to the next column
\* to assign), the loss ranges (relativeStart, lossCountM1), and the bytes
\* that follow them (none, or a relativeStart without its count)
AckShapes ==
    { << -1, << >>, << >> >>,
      << 0, << >>, << >> >>,
      << -2, << << 0, 1 >> >>, << >> >>,
      << -2, << << 0, 0 >>, << 0, 0 >> >>, << >> >>,
      << -1, << >>, << 0 >> >> }

AckInputs(W) ==
    { AckBytes(InputColumn(W, shape[1]), shape[2], shape[3]) : shape \in AckShapes }
    \cup BadHeaders

RetransmitMsecs == { 0, 1 }

\* Row opcodes of the eight lanes
OpcodeVectors ==
    { [l \in Lanes |-> 63], [l \in Lanes |-> 1 + (l % 7) * 9] }

(***************************************************************************)
(* Initial states                                                          *)
(***************************************************************************)
\* Encoder::Encoder()
\* The window after n >= 1 Add calls on a new encoder, at time 0, with
\* nothing else called: columns 0 .. n - 1 at elements 0 .. n - 1
WindowAfterAdds(n) ==
    LET subwindowCount == ((n - 1 + kColumnLaneCount) \div kSubwindowSize) + 1
        original(e) == IF e < n THEN InitializeOriginal(e, PayloadFor(e), 0)
                       ELSE EmptyOriginal
        bytes(e) == Len(SerializeHeader_PacketLength(Len(PayloadFor(e))))
                        + Len(PayloadFor(e))
    IN
    [NewWindow EXCEPT
        !.NextColumn = n % kColumnPeriod,
        !.Count = n,
        !.Subwindows = [w \in 1 .. subwindowCount |->
                           [i \in 1 .. kSubwindowSize |->
                               original((w - 1) * kSubwindowSize + i - 1)]],
        !.LongestPacket = SetMax({bytes(e) : e \in 0 .. (n - 1)}),
        !.LaneLongest = [l \in Lanes |->
            SetMax({bytes(e) : e \in {j \in 0 .. (n - 1) : j % kColumnLaneCount = l}})]]

AddedAfterAdds(n) ==
    [k \in 1 .. n |-> [PacketNum |-> k - 1, Data |-> PayloadFor(k - 1)]]

Init ==
    /\ Window = NewWindow
    /\ Ack = NewAck
    /\ Rows = NewRows
    /\ now = 0
    /\ ret = Returned("none", "none", -1, << >>)
    /\ crashed = FALSE
    /\ addsLeft = MaxAddCalls
    /\ added = << >>
    /\ rtx = NoHistory
    /\ Alloc = NewAllocator
    /\ LoggerUnused

\* The encoder after n Add calls and nothing else
InitAfterAdds(n) ==
    /\ Window = WindowAfterAdds(n)
    /\ Ack = NewAck
    /\ Rows = NewRows
    /\ now = 0
    /\ ret = Returned("Add", "Success", n - 1, PayloadFor(n - 1))
    /\ crashed = FALSE
    /\ addsLeft = MaxMoreAdds
    /\ added = AddedAfterAdds(n)
    /\ rtx = NoHistory
    /\ Alloc = NewAllocator
    /\ LoggerUnused

InitPrefilled == InitAfterAdds(Prefill)

InitFull == InitAfterAdds(FullPrefill)

InitTimed == InitAfterAdds(TimedPrefill)

InitCauchy == InitAfterAdds(CauchyPrefill)

InitSums == InitAfterAdds(SumsPrefill)

\* The window after n >= kColumnLaneCount rounds of Add followed by
\* RemoveBefore(NextColumn) on a new encoder, at time 0: every Add restarted
\* the window in the one subwindow there is, whose first slots hold the last
\* original of each lane; the sums were never used
WindowAfterRounds(n) ==
    LET last == n - 1
        element == last % kColumnLaneCount
        latest(e) == last - ((last - e) % kColumnLaneCount)
        original(e) == IF e < kColumnLaneCount
                       THEN InitializeOriginal(latest(e), PayloadFor(latest(e)), 0)
                       ELSE EmptyOriginal
        bytes == Len(SerializeHeader_PacketLength(Len(PayloadFor(last))))
                     + Len(PayloadFor(last))
    IN
    [NewWindow EXCEPT
        !.NextColumn = n % kColumnPeriod,
        !.Count = 0,
        !.ColumnStart = last - element,
        !.FirstUnremovedElement = element,
        !.SumStartElement = element,
        !.SumEndElement = element,
        !.Subwindows = << [i \in 1 .. kSubwindowSize |-> original(i - 1)] >>,
        !.LongestPacket = bytes,
        !.LaneLongest = [l \in Lanes |-> IF l = element THEN bytes ELSE 0]]

\* The window of Prefill originals after an Encode call that selects every
\* sum: a Siamese row, which folds every original into the sums of its lane.
\* Every further such call finds nothing left to fold and leaves the window
\* as it is.
WindowAfterRow ==
    Encode(WindowAfterAdds(Prefill), NewRows, [l \in Lanes |-> 63], "none").W

\* The encoder after Prefill Add calls and RowsPrefill such Encode calls
InitRows ==
    LET start(a) ==
            /\ Window = a.W
            /\ Rows = a.R
            /\ ret = a.ret
    IN
    /\ start(Encode(WindowAfterRow, [NewRows EXCEPT !.NextRow = RowsPrefill - 1],
                    [l \in Lanes |-> 63], "none"))
    /\ Ack = NewAck
    /\ now = 0
    /\ crashed = FALSE
    /\ addsLeft = MaxMoreAdds
    /\ added = AddedAfterAdds(Prefill)
    /\ rtx = NoHistory
    /\ Alloc = NewAllocator
    /\ LoggerUnused

\* The encoder after WrappedPrefill such rounds.  added lists the Add calls
\* made from this state on.
InitWrapped ==
    /\ Window = WindowAfterRounds(WrappedPrefill)
    /\ Ack = NewAck
    /\ Rows = NewRows
    /\ now = 0
    /\ ret = Returned("RemoveBefore", "none", WrappedPrefill % kColumnPeriod, << >>)
    /\ crashed = FALSE
    /\ addsLeft = WrappedAdds
    /\ added = << >>
    /\ rtx = NoHistory
    /\ Alloc = NewAllocator
    /\ LoggerUnused

\* The window after n rounds of a stream that keeps two packets in flight:
\* each round is an Add, a RemoveBefore of the column two below the next one
\* and an Encode.  With at most two originals unacknowledged every Encode takes
\* the single-packet or the Cauchy path, which leave the window as it is.
WindowAfterStream(n) ==
    [WindowAfterAdds(n) EXCEPT !.FirstUnremovedElement = n - 2]

\* The row counters after n such rounds, n >= 2: the even rounds emit a parity
\* row, the odd rounds from the third on a Cauchy row
RowsAfterStream(n) ==
    [NextRow |-> 0,
     NextParityColumn |-> (n - (n % 2)) % kColumnPeriod,
     NextCauchyRow |-> ((n - 1) \div 2) % kCauchyMaxRows]

\* The encoder after FullPrefill such rounds
InitStream ==
    LET start(a) ==
            /\ Window = a.W
            /\ Rows = a.R
            /\ ret = a.ret
    IN
    /\ start(Encode(WindowAfterStream(FullPrefill), RowsAfterStream(FullPrefill - 1),
                    [l \in Lanes |-> 0], "none"))
    /\ Ack = NewAck
    /\ now = 0
    /\ crashed = FALSE
    /\ addsLeft = MaxMoreAdds
    /\ added = AddedAfterAdds(FullPrefill)
    /\ rtx = NoHistory
    /\ Alloc = NewAllocator
    /\ LoggerUnused

(***************************************************************************)
(* The public operations                                                   *)
(***************************************************************************)
AddCall ==
    /\ ~crashed
    /\ \E data \in Payloads(Window), oom \in { "none", "subwindow", "initialize" } :
           LET r == WindowAdd(Window, data, now, oom) IN
           /\ r.result = "Success" => addsLeft > 0
           /\ Window' = r.W
           /\ ret' = Returned("Add", r.result, r.PacketNum, data)
           /\ added' = IF r.result = "Success"
                       THEN Append(added, [PacketNum |-> r.PacketNum, Data |-> data])
                       ELSE added
           /\ addsLeft' = IF r.result = "Success" THEN addsLeft - 1 ELSE addsLeft
    /\ rtx' = NoHistory
    /\ UNCHANGED << Ack, Rows, now, crashed >>
    /\ UNCHANGED << Alloc, OutputWorker, Threads >>

GetCall ==
    /\ ~crashed
    /\ \E off \in GetOffsets : ret' = Get(Window, InputColumn(Window, off))
    /\ rtx' = NoHistory
    /\ UNCHANGED << Window, Ack, Rows, now, crashed, addsLeft, added >>
    /\ UNCHANGED << Alloc, OutputWorker, Threads >>

RemoveBeforeCall ==
    /\ ~crashed
    /\ \E off \in RemoveOffsets :
           LET column == InputColumn(Window, off) IN
           /\ Window' = RemoveBefore(Window, column)
           /\ ret' = Returned("RemoveBefore", "none", column, << >>)
    /\ rtx' = NoHistory
    /\ UNCHANGED << Ack, Rows, now, crashed, addsLeft, added >>
    /\ UNCHANGED << Alloc, OutputWorker, Threads >>

\* Encoder::Acknowledge
AcknowledgeCall ==
    /\ ~crashed
    /\ \E data \in AckInputs(Window), oom \in BOOLEAN :
           IF Window.EmergencyDisabled
           THEN /\ ret' = Returned("Acknowledge", "Disabled", -1, data)
                /\ rtx' = NoHistory
                /\ UNCHANGED << Window, Ack, crashed >>
           ELSE LET r == OnAcknowledgementData(Ack, Window, data, oom)
                    header == DeserializeHeader_PacketNum(data)
                    rest == SubSeq(data, header.bytes + 1, Len(data))
                IN
                /\ Window' = r.W
                /\ Ack' = r.A
                /\ crashed' = r.crashed
                /\ ret' = Returned("Acknowledge",
                              IF r.crashed THEN "none"
                              ELSE IF r.ok THEN "Success" ELSE "InvalidInput",
                              -1, data)
                /\ rtx' = IF r.ok /\ ~r.crashed
                           THEN [active |-> TRUE,
                                 dup |-> IsDuplicate(Ack, header.value, rest),
                                 ack |-> data,
                                 calls |-> << >>]
                           ELSE NoHistory
    /\ UNCHANGED << Rows, now, addsLeft, added >>
    /\ UNCHANGED << Alloc, OutputWorker, Threads >>

RetransmitCall ==
    /\ ~crashed
    /\ \E retransmitMsec \in RetransmitMsecs :
           LET r == Retransmit(Window, Ack, retransmitMsec, now) IN
           /\ Window' = r.W
           /\ Ack' = r.A
           /\ ret' = [op |-> r.ret.op, result |-> r.ret.result,
                       PacketNum |-> r.ret.PacketNum, Data |-> r.ret.Data,
                       kind |-> r.ret.kind, metadata |-> r.ret.metadata,
                       retransmitMsec |-> retransmitMsec, recent |-> r.recent]
           /\ rtx' = IF rtx.active /\ retransmitMsec = 0 /\ Len(rtx.calls) < MaxHistory
                      THEN [rtx EXCEPT !.calls =
                               Append(@, [result |-> r.ret.result,
                                          column |-> IF r.ret.result = "Success"
                                                     THEN r.ret.PacketNum ELSE -1])]
                      ELSE NoHistory
    /\ UNCHANGED << Rows, now, crashed, addsLeft, added >>
    /\ UNCHANGED << Alloc, OutputWorker, Threads >>

\* Encoder::Encode, explored while NextRow is one of rows and NextCauchyRow
\* is below cauchyRows
EncodeCall(rows, cauchyRows) ==
    /\ ~crashed
    /\ Rows.NextRow \in rows
    /\ Rows.NextCauchyRow < cauchyRows
    /\ \E opcodes \in OpcodeVectors, oom \in { "none", "buffer", "sums" } :
           LET r == Encode(Window, Rows, opcodes, oom) IN
           /\ Window' = r.W
           /\ Rows' = r.R
           /\ ret' = r.ret
    /\ rtx' = NoHistory
    /\ UNCHANGED << Ack, now, crashed, addsLeft, added >>
    /\ UNCHANGED << Alloc, OutputWorker, Threads >>

GetStatisticsCall ==
    /\ ~crashed
    /\ ret' = GetStatistics(Window)
    /\ rtx' = NoHistory
    /\ UNCHANGED << Window, Ack, Rows, now, crashed, addsLeft, added >>
    /\ UNCHANGED << Alloc, OutputWorker, Threads >>

\* GetTimeMsec() moves on between two calls
Tick ==
    /\ ~crashed
    /\ now < MaxTime
    /\ now' = now + 1
    /\ ret' = Returned("Tick", "none", -1, << >>)
    /\ UNCHANGED << Window, Ack, Rows, crashed, addsLeft, added, rtx >>
    /\ UNCHANGED << Alloc, OutputWorker, Threads >>

Next ==
    \/ AddCall
    \/ GetCall
    \/ RemoveBeforeCall
    \/ AcknowledgeCall
    \/ RetransmitCall
    \/ EncodeCall(0 .. (MaxRows - 1), MaxRows)
    \/ GetStatisticsCall

Spec == Init /\ [][Next]_vars

\* The operations on the window and Encode
NextWindow ==
    \/ AddCall
    \/ GetCall
    \/ RemoveBeforeCall
    \/ EncodeCall(0 .. (MaxSumRows - 1), MaxSumRows)

\* The operations on the window without Encode, whose sums over a window of
\* SIAMESE_MAX_PACKETS originals are left to the other specifications
NextAdds ==
    \/ AddCall
    \/ GetCall
    \/ RemoveBeforeCall
    \/ GetStatisticsCall

\* The same operations on an encoder that holds Prefill originals, enough
\* for Siamese rows and for the removal of whole subwindows
SpecPrefilled == InitPrefilled /\ [][NextWindow]_vars

\* The same operations on an encoder one packet short of SIAMESE_MAX_PACKETS
SpecFull == InitFull /\ [][NextAdds]_vars

\* Acknowledgements and retransmissions while the clock moves on
NextTimed ==
    \/ AcknowledgeCall
    \/ RetransmitCall
    \/ Tick

\* An encoder that holds TimedPrefill originals, all sent at time 0
SpecTimed == InitTimed /\ [][NextTimed]_vars

\* Encode through the whole cycle of the Cauchy rows
NextCauchy ==
    \/ AddCall
    \/ EncodeCall(0 .. kCauchyMaxRows, kCauchyMaxRows + 1)

\* An encoder that holds CauchyPrefill originals, few enough for Cauchy rows
SpecCauchy == InitCauchy /\ [][NextCauchy]_vars

\* Acknowledgements between the rows and the restart of an emptied window
NextSums ==
    \/ AddCall
    \/ AcknowledgeCall
    \/ EncodeCall(0 .. (MaxRows - 1), MaxRows)

\* An encoder that holds SumsPrefill originals, just enough for Siamese rows
SpecSums == InitSums /\ [][NextSums]_vars

\* Add, the removal of acknowledged originals and Encode, for MaxSumRows more
\* Cauchy rows
NextStream ==
    \/ AddCall
    \/ RemoveBeforeCall
    \/ EncodeCall(0 .. (MaxRows - 1),
                  RowsAfterStream(FullPrefill).NextCauchyRow + MaxSumRows)

\* An encoder one packet short of SIAMESE_MAX_PACKETS in a stream that has
\* kept two packets in flight and has called Encode after every removal
SpecStream == InitStream /\ [][NextStream]_vars

\* Every call but GetStatistics, on a window whose columns pass the wrap
NextWrapped ==
    \/ AddCall
    \/ GetCall
    \/ RemoveBeforeCall
    \/ AcknowledgeCall
    \/ RetransmitCall
    \/ EncodeCall(0 .. (MaxRows - 1), MaxRows)

\* An encoder whose next column is the last one before the wrap to column 0
SpecWrapped == InitWrapped /\ [][NextWrapped]_vars

\* Removals and Encode from row RowsPrefill on, past the end of the cycle of
\* the Siamese rows
NextRows ==
    \/ RemoveBeforeCall
    \/ EncodeCall({ r % kRowPeriod : r \in RowsPrefill .. (RowsPrefill + MaxWrapRows - 1) },
                  MaxRows)

\* An encoder that holds Prefill originals and has generated RowsPrefill rows
SpecRows == InitRows /\ [][NextRows]_vars

(***************************************************************************)
(* The allocator as a state machine                                        *)
(***************************************************************************)
\* What a call of the allocator returned: the call, its arguments and the
\* pointer returned
AllocatorReturned(op, ptr, bytes, oom, r) ==
    [op |-> op, ptr |-> ptr, bytes |-> bytes, oom |-> oom,
     result |-> r.ptr, outcome |-> r.outcome]

\* The request sizes explored on a new allocator: none, the largest that is
\* served from a window (kFallbackThresholdUnits units) and the smallest that
\* is not
WindowSizes ==
    { 0,
      (kFallbackThresholdUnits - 1) * kUnitSize - kOverallocationBytes,
      (kFallbackThresholdUnits - 1) * kUnitSize - kOverallocationBytes + 1 }

\* The request sizes that leave a window in pieces: 2 units and
\* kFallbackThresholdUnits - 2 units
SmallBytes == kUnitSize - kOverallocationBytes

LargeBytes == (kFallbackThresholdUnits - 3) * kUnitSize - kOverallocationBytes

\* The request size explored on such a window: kFallbackThresholdUnits units
FragmentSizes ==
    { (kFallbackThresholdUnits - 1) * kUnitSize - kOverallocationBytes }

\* The allocator after Allocate calls of the given sizes, none of which
\* fails
RECURSIVE AfterAllocations(_, _)
AfterAllocations(A, sizes) ==
    IF sizes = << >> THEN A
    ELSE AfterAllocations(Allocate(A, Head(sizes), "none").A, Tail(sizes))

\* The encoder of an allocator that is exercised by itself: it is new and
\* stays so
EncoderUnused ==
    /\ Window = NewWindow
    /\ Ack = NewAck
    /\ Rows = NewRows
    /\ now = 0
    /\ ret = Returned("none", "none", -1, << >>)
    /\ crashed = FALSE
    /\ addsLeft = 0
    /\ added = << >>
    /\ rtx = NoHistory

\* Allocator::Allocator, whose preallocation succeeds or fails
InitAllocator ==
    /\ EncoderUnused
    /\ Alloc \in { NewAllocator, NewAllocatorWithoutChunk }
    /\ LoggerUnused

\* The allocations that leave the first window in pieces: three of
\* kFallbackThresholdUnits - 2 units, each followed by one of 2 units, and
\* one more of 2 units
Fragments ==
    << LargeBytes, SmallBytes, LargeBytes, SmallBytes, LargeBytes, SmallBytes,
       SmallBytes >>

\* The allocator after these allocations
InitFragmented ==
    /\ EncoderUnused
    /\ Alloc = AfterAllocations(NewAllocator, Fragments)
    /\ LoggerUnused

\* The calls explored: at most live allocations are live, MaxFallbacks of
\* them fallback allocations; a system allocation fails where the call makes
\* one, and the write through a null pointer has its two outcomes where the
\* call makes one
Explored(r, none, trap, oom, live) ==
    /\ Cardinality(r.A.Live) <= live
    /\ Cardinality({ p \in r.A.Live : p.Header = NullWindow }) <= MaxFallbacks
    /\ oom # "none" => r # none
    /\ oom = "wild" => r # trap

\* Allocator::Allocate with a size of sizes
AllocateCall(sizes, live) ==
    /\ ~crashed
    /\ \E bytes \in sizes, oom \in { "none", "trap", "wild" } :
           LET Call(r) ==
                   /\ Explored(r, Allocate(Alloc, bytes, "none"),
                               Allocate(Alloc, bytes, "trap"), oom, live)
                   /\ Alloc' = r.A
                   /\ crashed' = (r.outcome # "ok")
                   /\ ret' = AllocatorReturned("Allocate", NullPtr, bytes, oom, r)
           IN Call(Allocate(Alloc, bytes, oom))
    /\ UNCHANGED << Window, Ack, Rows, now, addsLeft, added, rtx >>
    /\ UNCHANGED << OutputWorker, Threads >>

\* The allocation is one of a window that is in the full list
InFull(A, ptr) ==
    /\ ptr # NullPtr
    /\ ptr.Header # NullWindow
    /\ A.Windows[ptr.Header].InFullList

\* The live allocations of at least units units, and nullptr
Pointers(units) == { p \in Alloc.Live : p.UsedUnits >= units } \cup { NullPtr }

\* Allocator::Free of a live allocation of at least units units or of
\* nullptr.  ret tells whether the window was in the full list.
FreeCall(units) ==
    /\ ~crashed
    /\ \E ptr \in Pointers(units) :
           /\ Alloc' = Free(Alloc, ptr)
           /\ ret' = [op |-> "Free", ptr |-> ptr, bytes |-> 0, oom |-> "none",
                       result |-> NullPtr, outcome |-> "ok",
                       full |-> InFull(Alloc, ptr)]
    /\ UNCHANGED << Window, Ack, Rows, now, crashed, addsLeft, added, rtx >>
    /\ UNCHANGED << OutputWorker, Threads >>

\* Allocator::Reallocate of a live allocation of at least units units or of
\* nullptr
ReallocateCall(sizes, units, live) ==
    /\ ~crashed
    /\ \E ptr \in Pointers(units), bytes \in sizes,
          oom \in { "none", "trap", "wild" } :
           LET Call(r) ==
                   /\ Explored(r, Reallocate(Alloc, ptr, bytes, "none"),
                               Reallocate(Alloc, ptr, bytes, "trap"), oom, live)
                   /\ Alloc' = r.A
                   /\ crashed' = (r.outcome # "ok")
                   /\ ret' = AllocatorReturned("Reallocate", ptr, bytes, oom, r)
           IN Call(Reallocate(Alloc, ptr, bytes, oom))
    /\ UNCHANGED << Window, Ack, Rows, now, addsLeft, added, rtx >>
    /\ UNCHANGED << OutputWorker, Threads >>

NextAllocator ==
    \/ AllocateCall(WindowSizes, MaxLive)
    \/ FreeCall(0)
    \/ ReallocateCall(WindowSizes, 0, MaxLive)

\* A new allocator and requests of kFallbackThresholdUnits units, of more
\* and of nothing
SpecAllocator == InitAllocator /\ [][NextAllocator]_vars

\* The calls on the allocations of more than 2 units, with MaxMoreLive more
\* live allocations
NextFragmented ==
    \/ AllocateCall(FragmentSizes, Len(Fragments) + MaxMoreLive)
    \/ FreeCall(UnitsFor(LargeBytes))
    \/ ReallocateCall(FragmentSizes, UnitsFor(LargeBytes),
                      Len(Fragments) + MaxMoreLive)

\* An allocator whose first window is in pieces
SpecFragmented == InitFragmented /\ [][NextFragmented]_vars

(***************************************************************************)
(* The logging worker as a state machine: the worker thread in             *)
(* OutputWorker::Loop and MaxClients threads that call Write, Flush,       *)
(* Channel::Error and Stop.  A step is the code of one thread up to the    *)
(* point where it gives up QueueLock or has made one access to an atomic   *)
(* outside of the lock.                                                    *)
(***************************************************************************)
\* The encoder and the allocator of a process that only logs
LoggerOnly ==
    UNCHANGED << Window, Ack, Rows, now, ret, crashed, addsLeft, added, rtx,
                 Alloc >>

\* Threads before any call, with the Write calls still to explore
ThreadsAtStart == [NewThreads EXCEPT !.writesLeft = MaxWrites]

\* The worker was constructed and its thread has not run yet; no message
\* was written so far, or kWorkQueueLimit - 1 messages were and wait in the
\* public queue
InitLogger ==
    /\ EncoderUnused
    /\ Alloc = NewAllocator
    /\ \/ /\ OutputWorker = NewOutputWorker
          /\ Threads = ThreadsAtStart
       \/ /\ OutputWorker =
                 [NewOutputWorker EXCEPT
                     !.QueuePublic = Batch(1, kWorkQueueLimit - 1)]
          /\ Threads = [ThreadsAtStart EXCEPT !.passed = kWorkQueueLimit - 1]

\* OutputWorker::Loop, while (!Terminated)
LoopTest ==
    /\ Threads.Loop.pc = "while"
    /\ Threads' = [Threads EXCEPT !.Loop.pc =
                      IF OutputWorker.Terminated THEN "exit" ELSE "lock"]
    /\ UNCHANGED OutputWorker
    /\ LoggerOnly

\* The locked part of the loop after the thread was given the lock
Locked ==
    /\ OutputWorker' = Swap(OutputWorker)
    /\ Threads' = [Threads EXCEPT
                      !.Loop = [pc |-> "for",
                                overrun |-> OutputWorker.Overrun,
                                flushRequested |-> OutputWorker.FlushRequested]]

\* OutputWorker::Loop takes QueueLock: with an empty public queue it waits,
\* which gives up the lock; else it goes on to swap the queues
LoopLock ==
    /\ Threads.Loop.pc = "lock"
    /\ IF OutputWorker.QueuePublic = << >>
       THEN /\ Threads' = [Threads EXCEPT !.Loop.pc = "wait"]
            /\ UNCHANGED OutputWorker
       ELSE Locked
    /\ LoggerOnly

\* QueueCondition.wait returns without a notification, as a condition
\* variable may
LoopSpurious ==
    /\ Threads.Loop.pc = "wait"
    /\ Threads' = [Threads EXCEPT !.Loop.pc = "woken"]
    /\ UNCHANGED OutputWorker
    /\ LoggerOnly

\* The woken worker has the lock again and goes on without a second look
\* at the queue
LoopWake ==
    /\ Threads.Loop.pc = "woken"
    /\ Locked
    /\ LoggerOnly

\* The unlocked part of the loop: the messages and the overrun report are
\* written, and FlushCondition is notified if a flush was requested
LoopLog ==
    /\ Threads.Loop.pc = "for"
    /\ OutputWorker' = Log(OutputWorker, Threads.Loop.overrun)
    /\ Threads' =
           [(IF Threads.Loop.flushRequested
             THEN NotifyFlushCondition(Threads) ELSE Threads)
            EXCEPT !.Loop = NewThreads.Loop]
    /\ LoggerOnly

\* No call of thread t is under way
Idle(t) ==
    /\ Threads.client[t].pc = "idle"
    /\ Threads.client[t].todo = << >>

\* Thread t enters call, with the calls of rest to follow it and writes
\* more Write calls explored.  Write: the locked part; the message is
\* counted as dropped if the queue did not take it.  Flush: the whole of
\* it up to FlushCondition.wait, which gives up the lock.
Begin(t, call, rest, writes) ==
    LET message == Threads.passed + 1
        written == Write(OutputWorker, message)
        entered == [Threads EXCEPT !.client[t].todo = rest,
                                   !.writesLeft = @ - writes]
    IN  /\ IF call = "Write"
           THEN /\ OutputWorker' = written
                /\ Threads' = [entered EXCEPT
                       !.client[t].pc = "notify",
                       !.passed = message,
                       !.dropped = IF written.QueuePublic = OutputWorker.QueuePublic
                                   THEN @ \cup {message} ELSE @]
           ELSE /\ OutputWorker' = [OutputWorker EXCEPT !.FlushRequested = TRUE]
                /\ Threads' = [NotifyQueueCondition(entered) EXCEPT
                       !.client[t].pc = "FlushCondition.wait"]
        /\ LoggerOnly

\* OutputWorker::Write up to the end of the locked part
WriteCall(t) ==
    /\ Idle(t)
    /\ Threads.writesLeft > 0
    /\ Begin(t, "Write", << >>, 1)

\* OutputWorker::Write, QueueCondition.notify_all() and the return
WriteNotify(t) ==
    /\ Threads.client[t].pc = "notify"
    /\ Threads' = [NotifyQueueCondition(Threads) EXCEPT !.client[t].pc = "idle"]
    /\ UNCHANGED OutputWorker
    /\ LoggerOnly

\* OutputWorker::Flush up to the wait
FlushCall(t) ==
    /\ Idle(t)
    /\ Begin(t, "Flush", << >>, 0)

\* FlushCondition.wait returns without a notification
FlushSpurious(t) ==
    /\ Threads.client[t].pc = "FlushCondition.wait"
    /\ Threads' = [Threads EXCEPT !.client[t].pc = "flushed"]
    /\ UNCHANGED OutputWorker
    /\ LoggerOnly

\* The woken caller of Flush has the lock again and returns
FlushReturn(t) ==
    /\ Threads.client[t].pc = "flushed"
    /\ Threads' = [Threads EXCEPT !.client[t].pc = "idle"]
    /\ UNCHANGED OutputWorker
    /\ LoggerOnly

\* Channel::Error at Level::Error or below the channel's level: Flush, and
\* Log and Flush to follow
ErrorCall(t) ==
    /\ Idle(t)
    /\ Threads.writesLeft > 0
    /\ Begin(t, "Flush", << "Write", "Flush" >>, 1)

\* Channel::Error goes on to its next call
ErrorStep(t) ==
    /\ Threads.client[t].pc = "idle"
    /\ Threads.client[t].todo # << >>
    /\ Begin(t, Head(Threads.client[t].todo), Tail(Threads.client[t].todo), 0)

\* Thread t is in OutputWorker::Stop
Stopping(t) == Threads.client[t].pc \in { "notify_all", "join" }

\* OutputWorker::Stop with a thread to stop, Terminated = true.  Stop is
\* left to one thread at a time: two would race for Thread.
StopCall(t) ==
    /\ Idle(t)
    /\ OutputWorker.Thread
    /\ \A other \in Clients : ~Stopping(other)
    /\ OutputWorker' = [OutputWorker EXCEPT !.Terminated = TRUE]
    /\ Threads' = [Threads EXCEPT !.client[t].pc = "notify_all"]
    /\ LoggerOnly

\* OutputWorker::Stop, QueueCondition.notify_all()
StopNotify(t) ==
    /\ Threads.client[t].pc = "notify_all"
    /\ Threads' = [NotifyQueueCondition(Threads) EXCEPT !.client[t].pc = "join"]
    /\ UNCHANGED OutputWorker
    /\ LoggerOnly

\* OutputWorker::Stop, Thread->join() returns once Loop has returned;
\* Thread = nullptr
StopJoin(t) ==
    /\ Threads.client[t].pc = "join"
    /\ Threads.Loop.pc = "exit"
    /\ OutputWorker' = [OutputWorker EXCEPT !.Thread = FALSE]
    /\ Threads' = [Threads EXCEPT !.client[t].pc = "idle"]
    /\ LoggerOnly

NextLogger ==
    \/ LoopTest
    \/ LoopLock
    \/ LoopSpurious
    \/ LoopWake
    \/ LoopLog
    \/ \E t \in Clients : WriteCall(t)
    \/ \E t \in Clients : WriteNotify(t)
    \/ \E t \in Clients : FlushCall(t)
    \/ \E t \in Clients : FlushSpurious(t)
    \/ \E t \in Clients : FlushReturn(t)
    \/ \E t \in Clients : ErrorCall(t)
    \/ \E t \in Clients : ErrorStep(t)
    \/ \E t \in Clients : StopCall(t)
    \/ \E t \in Clients : StopNotify(t)
    \/ \E t \in Clients : StopJoin(t)

\* The logging worker under every interleaving of its threads
SpecLogger == InitLogger /\ [][NextLogger]_vars

\* The scheduler lets every thread run that can: the worker thread goes on
\* while it does not wait, and a call that was entered goes on while it
\* does not wait.  Nothing makes a thread enter a call, and nothing makes a
\* wait return without a notification.
FairLogger ==
    /\ WF_vars(LoopTest)
    /\ WF_vars(LoopLock)
    /\ WF_vars(LoopWake)
    /\ WF_vars(LoopLog)
    /\ \A t \in Clients :
           /\ WF_vars(WriteNotify(t))
           /\ WF_vars(FlushReturn(t))
           /\ WF_vars(ErrorStep(t))
           /\ WF_vars(StopNotify(t))
           /\ WF_vars(StopJoin(t))

SpecLoggerFair == SpecLogger /\ FairLogger

(***************************************************************************)
(* Properties.  ret is what the call of the last step returned, so a step  *)
(* with ret'.op = "Add" that changes the state is a step of AddCall, and   *)
(* likewise for the other calls.                                           *)
(***************************************************************************)
\* The calls that return a result code
ResultOps == { "Add", "Get", "Acknowledge", "Retransmit", "Encode", "GetStatistics" }

\* C1: once EmergencyDisabled is set it stays set, and every later Add, Get,
\* Acknowledge, Retransmit, Encode and GetStatistics call returns Disabled.
C1_DisabledIsAbsorbing ==
    [][Window.EmergencyDisabled =>
           /\ Window'.EmergencyDisabled
           /\ ret'.op \in ResultOps => ret'.result = "Disabled"]_vars

\* The successful Add that was assigned the column: its payload
AddedPayloads(column) ==
    { added[k].Data : k \in { j \in 1 .. Len(added) : added[j].PacketNum = column } }

\* C2: for every column whose element lies in [FirstUnremovedElement, Count),
\* Get returns Success with exactly the payload of the Add call that was
\* assigned the column, whatever Add, RemoveBefore and Encode calls came
\* before (RemoveElements and a restarted window included).
C2_AddGetRoundTrip ==
    ~Window.EmergencyDisabled =>
        \A e \in Window.FirstUnremovedElement .. (Window.Count - 1) :
            /\ Get(Window, ElementToColumn(Window, e)).result = "Success"
            /\ AddedPayloads(ElementToColumn(Window, e))
                   = { Get(Window, ElementToColumn(Window, e)).Data }

\* C2 witness: Get returned a kept original after RemoveElements removed
\* two subwindows
C2_GetAfterCompaction ==
    /\ ret.op = "Get"
    /\ ret.result = "Success"
    /\ Window.ColumnStart >= kEncoderRemoveThreshold
    /\ ColumnToElement(Window, ret.PacketNum) >= Window.FirstUnremovedElement

C4_MaxPacketsReached ==
    [][ret'.op = "Add" =>
           /\ ret'.result = "MaxPacketsReached"
                  <=> (~Window.EmergencyDisabled /\ Window.Count >= SIAMESE_MAX_PACKETS)
           /\ ret'.result = "MaxPacketsReached" => Window' = Window]_vars

\* C4 witness: Add returned MaxPacketsReached on a window of 16000 originals
C4_AddOnFullWindow ==
    /\ ret.op = "Add"
    /\ ret.result = "MaxPacketsReached"
    /\ Window.Count = SIAMESE_MAX_PACKETS
    /\ ~Window.EmergencyDisabled

\* C5: after RemoveBefore(c), or an acknowledgement whose next column
\* expected is c, Get of a column before c does not return Success: the
\* columns of the elements below FirstUnremovedElement are not addressable.
C5_RemovedNotAddressable ==
    (ret.op = "Get" /\ ret.result = "Success") =>
        ColumnToElement(Window, ret.PacketNum) >= Window.FirstUnremovedElement

\* C6: RemoveBefore(c) on an encoder that is not disabled: if c lies before
\* ColumnStart (negative delta) nothing changes; if the element of c lies in
\* [0, Count) FirstUnremovedElement becomes the larger of its old value and
\* the element, and Count is unchanged; if the element is at or beyond Count
\* the window is emptied (Count = 0).  FirstUnremovedElement never decreases
\* in a RemoveBefore or Acknowledge call.
C6_RemoveBeforeCases ==
    [][/\ (ret'.op = "RemoveBefore" /\ ~Window.EmergencyDisabled) =>
              IF IsColumnDeltaNegative(ColumnToElement(Window, ret'.PacketNum))
              THEN Window' = Window
              ELSE IF ColumnToElement(Window, ret'.PacketNum) < Window.Count
              THEN Window' = [Window EXCEPT !.FirstUnremovedElement =
                                 Max(@, ColumnToElement(Window, ret'.PacketNum))]
              ELSE Window' = [Window EXCEPT !.Count = 0]
       /\ ret'.op \in { "RemoveBefore", "Acknowledge" } =>
              Window'.FirstUnremovedElement >= Window.FirstUnremovedElement]_vars

\* C6 witness: a RemoveBefore emptied a window whose FirstUnremovedElement an
\* earlier call had advanced
C6_EmptiedAfterAdvance ==
    /\ ret.op = "RemoveBefore"
    /\ ~Window.EmergencyDisabled
    /\ Window.Count = 0
    /\ Window.FirstUnremovedElement > 0

\* C7: the same acknowledgement bytes submitted twice in a row return
\* Success both times, and the second call leaves the window and the loss
\* iterator (Offset, LossColumn, LossCount) unchanged.
C7_AckIdempotent ==
    [][(/\ ret.op = "Acknowledge"
        /\ ret.result = "Success"
        /\ ret'.op = "Acknowledge"
        /\ ret'.Data = ret.Data) =>
           /\ ret'.result = "Success"
           /\ Window' = Window
           /\ Ack' = Ack]_vars

\* C7 witness: an acknowledgement with loss ranges was submitted again right
\* after it returned Success
C7_SubmittedTwice ==
    /\ ret.op = "Acknowledge"
    /\ ret.result = "Success"
    /\ rtx.dup
    /\ Ack.DataBytes > 0

\* C8: whenever Acknowledge returns InvalidInput the window, the stored next
\* column expected, the stored loss-range bytes and the iterator position
\* are what they were before the call.
C8_InvalidInputChangesNothing ==
    [][(ret'.op = "Acknowledge" /\ ret'.result = "InvalidInput") =>
           (Window' = Window /\ Ack' = Ack)]_vars

\* What an acknowledgement says: its next column expected and the loss ranges
\* << relativeStart, lossCountM1 >> that its bytes hold in full
AckNextColumn(data) == DeserializeHeader_PacketNum(data).value

RECURSIVE RangesFrom(_, _)
RangesFrom(buf, pos) ==
    LET more(r) ==
            IF r.bytes < 0 THEN << >>
            ELSE << << r.relativeStart, r.lossCountM1 >> >>
                     \o RangesFrom(buf, pos + r.bytes)
    IN more(DeserializeHeader_NACKLossRange(buf, pos, Len(buf)))

AckRanges(data) ==
    RangesFrom(SubSeq(data, DeserializeHeader_PacketNum(data).bytes + 1, Len(data)), 0)

\* The columns of the ranges when relativeStart of a range counts from
\* `from`, and that of the next range from `gap` columns after its last one
RECURSIVE RangeColumns(_, _, _)
RangeColumns(from, ranges, gap) ==
    IF ranges = << >> THEN << >>
    ELSE [i \in 1 .. (Head(ranges)[2] + 1) |->
             AddColumns(from, Head(ranges)[1] + i - 1)]
         \o RangeColumns(AddColumns(from, Head(ranges)[1] + Head(ranges)[2] + gap),
                         Tail(ranges), gap)

\* The columns that successive GetNextLossColumn calls return until one
\* returns false, at most `limit` of them
RECURSIVE LossColumnsLeft(_, _)
LossColumnsLeft(A, limit) ==
    LET rest(g) ==
            IF ~g.ok \/ limit = 0 THEN << >>
            ELSE << g.column >> \o LossColumnsLeft(g.A, limit - 1)
    IN rest(GetNextLossColumn(A))

LossColumnsNamed == RangeColumns(AckNextColumn(rtx.ack), AckRanges(rtx.ack), 2)

\* The original of the column is in the window
Present(column) ==
    /\ ~InvalidElement(Window, ColumnToElement(Window, column))
    /\ Len(GetWindowElement(Window, ColumnToElement(Window, column)).Buffer) > 0

\* What call i of a cycle through the columns returns: Success for column i,
\* after the last column NeedMoreData once, then the columns again
CycleCall(columns, i) ==
    IF ((i - 1) % (Len(columns) + 1)) + 1 <= Len(columns)
    THEN [result |-> "Success", column |-> columns[((i - 1) % (Len(columns) + 1)) + 1]]
    ELSE [result |-> "NeedMoreData", column |-> -1]

C11_RetransmitNotBeforeDue ==
    [][ret'.op = "Retransmit" =>
         IF ret'.result = "Success"
         THEN LET element == ColumnToElement(Window, ret'.PacketNum) IN
              /\ ~InvalidElement(Window, element)
              /\ now - GetWindowElement(Window, element).LastSendMsec
                     >= ret'.retransmitMsec
              /\ \A column \in { ret'.recent[i] : i \in 1 .. Len(ret'.recent) } :
                     now - GetWindowElement(Window,
                               ColumnToElement(Window, column)).LastSendMsec
                        < ret'.retransmitMsec
              /\ Window' =
                     [Window EXCEPT !.Subwindows[(element \div kSubwindowSize) + 1]
                                                [(element % kSubwindowSize) + 1]
                                                .LastSendMsec = now]
         ELSE Window' = Window]_vars

\* C11 witness: a Retransmit(1) passed over an original sent in this very
\* millisecond and returned a later one that was due
C11_SentAfterSkipping ==
    /\ ret.op = "Retransmit"
    /\ ret.result = "Success"
    /\ ret.retransmitMsec = 1
    /\ ret.recent # << >>
    /\ now > 0

\* C12: Encode emits a Cauchy or parity packet only when the number of
\* unacknowledged originals (Count - FirstUnremovedElement) is at most
\* SIAMESE_CAUCHY_THRESHOLD, and a Siamese packet only when it is above
\* SIAMESE_SUM_RESET_THRESHOLD; a Cauchy or parity Encode does not advance
\* the lane sums (their next elements, bytes and end).
C12_ModeSelection ==
    [][(ret'.op = "Encode" /\ ret'.result = "Success") =>
         /\ ret'.kind \in { "parity", "cauchy" } =>
                /\ Window.Count - Window.FirstUnremovedElement
                       <= SIAMESE_CAUCHY_THRESHOLD
                /\ Window'.NextElement = Window.NextElement
                /\ Window'.SumBytes = Window.SumBytes
                /\ Window'.SumCols = Window.SumCols
                /\ Window'.SumEndElement <= Window.SumEndElement
         /\ ret'.kind = "siamese" =>
                Window.Count - Window.FirstUnremovedElement
                    > SIAMESE_SUM_RESET_THRESHOLD]_vars

\* C12 witness: a Siamese row for a number of unacknowledged originals
\* between the two thresholds, generated while the sums were running
C12_SiameseBetweenThresholds ==
    /\ ret.op = "Encode"
    /\ ret.kind = "siamese"
    /\ ret.metadata.LDPCCount <= SIAMESE_CAUCHY_THRESHOLD
    /\ ret.metadata.LDPCCount > SIAMESE_SUM_RESET_THRESHOLD

\* C13: when Count > 0 and exactly one original is unremoved, Encode returns
\* Success with that original's stored buffer and the footer {SumCount = 1,
\* LDPCCount = 1, ColumnStart = its column, Row = 0}; it leaves NextRow,
\* NextCauchyRow, NextParityColumn, the sums and the original's stored
\* length as they were.  (Disabled is what the call returns when the growth
\* of the buffer fails.)
C13_SinglePacket ==
    [][(/\ ret'.op = "Encode"
        /\ ~Window.EmergencyDisabled
        /\ Window.Count > 0
        /\ Window.Count - Window.FirstUnremovedElement = 1
        /\ ret'.result # "Disabled") =>
           /\ ret'.result = "Success"
           /\ ret'.kind = "single"
           /\ ret'.Data =
                  GetWindowElement(Window, Window.FirstUnremovedElement).Buffer
           /\ ret'.metadata =
                  [SumCount |-> 1, LDPCCount |-> 1,
                   ColumnStart |->
                       GetWindowElement(Window, Window.FirstUnremovedElement).Column,
                   Row |-> 0]
           /\ Rows' = Rows
           /\ Window' = Window]_vars

\* C13 witness: a single-packet row for the last original of a window whose
\* earlier originals were removed
C13_SingleAfterRemoval ==
    /\ ret.op = "Encode"
    /\ ret.result = "Success"
    /\ ret.kind = "single"
    /\ Window.FirstUnremovedElement > 0

\* The encoder has received Len(added) Add calls and nothing else that
\* changed it
OnlyAdds ==
    /\ added # << >>
    /\ Rows = NewRows
    /\ Ack = NewAck
    /\ Window.Count = Len(added)
    /\ Window.FirstUnremovedElement = 0
    /\ ~Window.EmergencyDisabled
    /\ Window = WindowAfterAdds(Len(added))

\* C14: on an encoder that has only received N successful adds, with
\* SIAMESE_CAUCHY_THRESHOLD < N, the first Encode returns a Siamese row whose
\* footer carries SumCount = N, LDPCCount = N, ColumnStart = 0 and Row = 0.
C14_FirstSiameseRow ==
    [][(/\ ret'.op = "Encode"
        /\ ret'.result # "Disabled"
        /\ Len(added) > SIAMESE_CAUCHY_THRESHOLD
        /\ OnlyAdds) =>
           /\ ret'.result = "Success"
           /\ ret'.kind = "siamese"
           /\ ret'.metadata =
                  [SumCount |-> Len(added), LDPCCount |-> Len(added),
                   ColumnStart |-> 0, Row |-> 0]]_vars

\* C14 witness: the first row of an encoder that got one Add more than its
\* initial state holds
C14_RowAfterOneMoreAdd ==
    /\ ret.op = "Encode"
    /\ ret.kind = "siamese"
    /\ ret.metadata.Row = 0
    /\ ret.metadata.SumCount = Prefill + 1
    /\ Len(added) = Prefill + 1

\* C15: on a fresh encoder with N originals, 2 <= N <=
\* SIAMESE_CAUCHY_THRESHOLD, and no acknowledgement, the first Encode emits
\* the parity row (Row = 0) over all N originals, and every Encode that
\* follows an Encode emits the Cauchy row after the last one, in the cycle
\* 1, 2, ..., kCauchyMaxRows, 1, ...
C15_ParityThenCauchyCycle ==
    [][(/\ added # << >>
        /\ Window = WindowAfterAdds(Len(added))
        /\ Ack = NewAck
        /\ Len(added) >= 2
        /\ Len(added) <= SIAMESE_CAUCHY_THRESHOLD
        /\ ret'.op = "Encode"
        /\ ret'.result # "Disabled") =>
           /\ ret'.result = "Success"
           /\ Rows = NewRows =>
                  /\ ret'.kind = "parity"
                  /\ ret'.metadata.Row = 0
                  /\ ret'.Data = [i \in 1 .. Len(added) |-> i - 1]
           /\ (ret.op = "Encode" /\ ret.result = "Success") =>
                  /\ ret'.kind = "cauchy"
                  /\ ret'.metadata.Row = (ret.metadata.Row % kCauchyMaxRows) + 1]_vars

\* C15 witness: the last Cauchy row of the cycle was emitted and the row
\* counter is back at its start
C15_CycleCompleted ==
    /\ ret.op = "Encode"
    /\ ret.kind = "cauchy"
    /\ ret.metadata.Row = kCauchyMaxRows
    /\ Rows.NextCauchyRow = 0

\* C16: whenever Encode is called on a non-empty window of an encoder that is
\* not disabled, with FirstUnremovedElement >= kEncoderRemoveThreshold, the
\* call runs RemoveElements, so that FirstUnremovedElement is below
\* kSubwindowSize when it returns, whichever kind of row it generates.
C16_EncodeCompacts ==
    [][(/\ ret'.op = "Encode"
        /\ ~Window.EmergencyDisabled
        /\ Window.Count > 0
        /\ Window.FirstUnremovedElement >= kEncoderRemoveThreshold) =>
           Window'.FirstUnremovedElement < kSubwindowSize]_vars

\* C17: RemoveElements lowers Count and FirstUnremovedElement by the same
\* removed count, a positive multiple of kSubwindowSize that does not exceed
\* the old FirstUnremovedElement; ColumnStart advances by the removed count
\* and is the column of the original now at element 0; every unremoved
\* original is found at the element that matches its column.  (Encode runs
\* RemoveElements before a Siamese row when FirstUnremovedElement has reached
\* kEncoderRemoveThreshold.)
C17_RemoveElements ==
    [][(/\ ret'.op = "Encode"
        /\ ret'.kind = "siamese"
        /\ Window.FirstUnremovedElement >= kEncoderRemoveThreshold) =>
           \E k \in 1 .. (Window.FirstUnremovedElement \div kSubwindowSize) :
               LET removed == k * kSubwindowSize IN
               /\ Window'.Count = Window.Count - removed
               /\ Window'.FirstUnremovedElement =
                      Window.FirstUnremovedElement - removed
               /\ Window'.ColumnStart = AddColumns(Window.ColumnStart, removed)
               /\ GetWindowElement(Window', 0).Column = Window'.ColumnStart
               /\ \A e \in Window'.FirstUnremovedElement .. (Window'.Count - 1) :
                      /\ GetWindowElement(Window', e) =
                             GetWindowElement(Window, e + removed)
                      /\ GetWindowElement(Window', e).Column =
                             ElementToColumn(Window', e)]_vars

\* C17 witness: a Siamese row was generated after two subwindows were removed
C17_TwoSubwindowsRemoved ==
    /\ ret.op = "Encode"
    /\ ret.kind = "siamese"
    /\ Window.ColumnStart = kEncoderRemoveThreshold
    /\ Window.FirstUnremovedElement < kSubwindowSize
    /\ Window.Count > Window.FirstUnremovedElement

\* C18: after every call that returns Success, every element e < Count holds
\* the original of column (ColumnStart + e) mod 2^22, and e and that column
\* are in the same lane; this includes the elements below
\* FirstUnremovedElement and those skipped when a window restarts.
C18_WindowIndexing ==
    ret.result = "Success" =>
        \A e \in 0 .. (Window.Count - 1) :
            /\ GetWindowElement(Window, e).Column = ElementToColumn(Window, e)
            /\ e % kColumnLaneCount
                   = GetWindowElement(Window, e).Column % kColumnLaneCount

\* C19 as stated: Count >= FirstUnremovedElement in every reachable state
C19_CountNotBelowFirst ==
    Window.Count >= Window.FirstUnremovedElement

\* C19: in every reachable state the window is empty (Count = 0) or Count is
\* above FirstUnremovedElement; an emptied window keeps the
\* FirstUnremovedElement it had until the next Add restarts it.
C19_EmptyOrAboveFirst ==
    Window.Count = 0 \/ Window.Count > Window.FirstUnremovedElement

\* C19 witness: an Add restarted a window that had been emptied with
\* FirstUnremovedElement far above the element the restart uses
C19_RestartedAfterEmptied ==
    /\ ret.op = "Add"
    /\ ret.result = "Success"
    /\ Window.Count = Window.FirstUnremovedElement + 1
    /\ Window.Count <= kColumnLaneCount
    /\ Len(added) > Prefill

\* The calls that C20 names
SumRangeOps == { "Add", "Acknowledge", "Retransmit", "Encode" }

\* C20 as stated: SumStartElement <= SumEndElement <= Count after every Add,
\* Acknowledge, Retransmit and Encode that returns Success
C20_SumRangeInWindow ==
    (ret.op \in SumRangeOps /\ ret.result = "Success") =>
        /\ Window.SumStartElement <= Window.SumEndElement
        /\ Window.SumEndElement <= Window.Count

\* C20: after every Add, Acknowledge, Retransmit and Encode that returns
\* Success, SumStartElement <= SumEndElement, and SumEndElement <= Count
\* unless the window is empty (Count = 0): an emptied window keeps its sum
\* range until the next Add restarts it.
C20_SumRangeInNonEmptyWindow ==
    (ret.op \in SumRangeOps /\ ret.result = "Success") =>
        /\ Window.SumStartElement <= Window.SumEndElement
        /\ Window.Count > 0 => Window.SumEndElement <= Window.Count

\* C20 witness: an Add restarted a window that an acknowledgement had
\* emptied while its sums were running
C20_RestartedAfterSums ==
    /\ ret.op = "Add"
    /\ ret.result = "Success"
    /\ Rows.NextRow > 0
    /\ Window.Count = Window.FirstUnremovedElement + 1
    /\ Window.SumEndElement = Window.SumStartElement

\* C21: column handling is wrap-safe, the debug assertions on columns
\* included: when Get or Retransmit hands back a stored original (the call
\* returns Success), the assertion PacketNum >= ColumnStart that the call made
\* on its column, and on every column Retransmit passed over, held, also for
\* a window whose columns pass the wrap from 2^22 - 1 to 0.
C21_ColumnAssertionsHold ==
    [][(ret'.op \in { "Get", "Retransmit" } /\ ret'.result = "Success") =>
           /\ DebugAssertColumn(Window, ret'.PacketNum)
           /\ ret'.op = "Retransmit" =>
                  \A i \in 1 .. Len(ret'.recent) :
                      DebugAssertColumn(Window, ret'.recent[i])]_vars

\* C22: an allocation failure inside Encode (the recovery buffer, the growth
\* of the single packet, or the growth of a lane sum in GetSum) makes that
\* call set EmergencyDisabled and return Disabled: an Encode call that
\* disables the encoder never returns Success.
C22_EncodeFailureReturnsDisabled ==
    [][(/\ ret'.op = "Encode"
        /\ ~Window.EmergencyDisabled
        /\ Window'.EmergencyDisabled) => ret'.result = "Disabled"]_vars

\* C23: an allocation failure while Acknowledge stores the loss-range bytes
\* is handled: no call writes through a null buffer (the process never
\* traps), and the encoder is left disabled.
C23_AckAllocationFailureHandled ==
    [][ret'.op = "Acknowledge" =>
           /\ ~crashed'
           /\ (ret'.result = "Disabled") => Window'.EmergencyDisabled]_vars

\* C24: a Siamese row carries the row number NextRow had and moves NextRow to
\* the next number mod kRowPeriod, so that, NextRow being 0 in a new encoder,
\* the i-th Siamese row carries (i - 1) mod kRowPeriod; no other step of an
\* encoder that stays enabled (single packet, Cauchy or parity row, removal)
\* changes NextRow, and a Siamese row that compacts the window or restarts
\* the sums counts like any other.
C24_RowPeriodicity ==
    [][IF ret'.op = "Encode" /\ ret'.kind = "siamese"
       THEN /\ ret'.metadata.Row = Rows.NextRow
            /\ ret'.metadata.Row \in 0 .. (kRowPeriod - 1)
            /\ Rows'.NextRow = (Rows.NextRow + 1) % kRowPeriod
       ELSE Rows'.NextRow = Rows.NextRow \/ Window'.EmergencyDisabled]_vars

\* C24 witness: the row after row kRowPeriod - 1 was generated, with number
\* 0, by a call that compacted the window
C24_RowZeroAgain ==
    /\ ret.op = "Encode"
    /\ ret.kind = "siamese"
    /\ ret.metadata.Row = 0
    /\ Rows.NextRow = 1
    /\ Window.ColumnStart > 0

\* The columns of lane l from SumColumnStart up to, and not including, the
\* column of element NextElement[l][s], in rising order on the circle
LaneColumnsBelowNext(W, l, s) ==
    LET end == SubtractColumns(ElementToColumn(W, W.NextElement[l][s]),
                               W.SumColumnStart)
        first == (l - (W.SumColumnStart % kColumnLaneCount) + kColumnLaneCount)
                     % kColumnLaneCount
        n == IF end > first
             THEN (end - first + kColumnLaneCount - 1) \div kColumnLaneCount
             ELSE 0
    IN [i \in 1 .. n |->
           AddColumns(W.SumColumnStart, first + kColumnLaneCount * (i - 1))]

\* C25 as stated, its first part: in every state of an encoder that is not
\* disabled, the originals folded into sum s of lane l since the last reset
\* are the originals of the lane from SumColumnStart up to the column of
\* NextElement[l][s], each once
C25_SumsExact ==
    ~Window.EmergencyDisabled =>
        \A l \in Lanes, s \in Sums :
            Window.SumCols[l][s] = LaneColumnsBelowNext(Window, l, s)

\* The opcode vectors with which Encode takes the encoder from W, R to W2, R2
RowOpcodes(W, R, W2, R2, returned) ==
    { opcodes \in OpcodeVectors :
        \E oom \in { "none", "sums" } :
            Encode(W, R, opcodes, oom) = [W |-> W2, R |-> R2, ret |-> returned] }

\* C25: while the sums are running (SumStartElement < SumEndElement) in an
\* encoder that is not disabled, the originals folded into sum s of lane l
\* since the last reset are the originals of the lane from SumColumnStart up
\* to the column of NextElement[l][s], each once, across Add, Encode,
\* RemoveBefore and RemoveElements; and after a Siamese row every sum that
\* the row's opcodes select has NextElement[l][s] >= Count.
C25_RunningSumsExact ==
    /\ []((~Window.EmergencyDisabled
             /\ Window.SumStartElement < Window.SumEndElement) =>
                \A l \in Lanes, s \in Sums :
                    Window.SumCols[l][s] = LaneColumnsBelowNext(Window, l, s))
    /\ [][(/\ ret'.op = "Encode"
            /\ ret'.kind = "siamese"
            /\ ~Window'.EmergencyDisabled) =>
               \A opcodes \in RowOpcodes(Window, Rows, Window', Rows', ret') :
                   \A l \in Lanes, s \in Sums :
                       OpcodeSelects(opcodes[l], s) =>
                           Window'.NextElement[l][s] >= Window'.Count]_vars

\* C25 witness: a Siamese row compacted the window while the sums were
\* running, and a sum the row did not select stays behind Count with the
\* originals it folded up to the removal point
C25_RolledUpSumBehind ==
    /\ ret.op = "Encode"
    /\ ret.kind = "siamese"
    /\ ~Window.EmergencyDisabled
    /\ Window.SumStartElement < Window.SumEndElement
    /\ Window.SumErasedCount > 0
    /\ \E l \in Lanes, s \in Sums :
           /\ Window.NextElement[l][s] < Window.Count
           /\ Window.SumCols[l][s] # << >>

\* C26: the footer of every Siamese row fits the window the call leaves:
\* (ColumnStart + SumCount) mod 2^22 is the column the next Add assigns,
\* LDPCCount <= SumCount, and (ColumnStart + SumCount - LDPCCount) mod 2^22
\* is the column of the first unacknowledged original, also after removals
\* that count removed elements in SumErasedCount.
C26_FooterFitsWindow ==
    (ret.op = "Encode" /\ ret.kind = "siamese") =>
        /\ AddColumns(ret.metadata.ColumnStart, ret.metadata.SumCount)
               = Window.NextColumn
        /\ ret.metadata.LDPCCount <= ret.metadata.SumCount
        /\ SubtractColumns(AddColumns(ret.metadata.ColumnStart,
                                      ret.metadata.SumCount),
                           ret.metadata.LDPCCount)
               = GetWindowElement(Window, Window.FirstUnremovedElement).Column
        /\ ret.metadata.LDPCCount = GetUnacknowledgedCount(Window)

\* C26 witness: a Siamese row whose sums hold removed elements, more than
\* the originals still unacknowledged
C26_RowOverErasedElements ==
    /\ ret.op = "Encode"
    /\ ret.kind = "siamese"
    /\ Window.SumErasedCount >= kEncoderRemoveThreshold
    /\ ret.metadata.LDPCCount < ret.metadata.SumCount
    /\ ret.metadata.ColumnStart # Window.ColumnStart

\* C27: whenever Count > 0, FirstUnremovedElement < Count: a non-empty window
\* holds at least one unacknowledged original and FirstUnremovedElement is a
\* valid element of it, and every recovery packet Encode hands back covers
\* at least one original.
C27_NonEmptyWindowHasUnacknowledged ==
    /\ Window.Count > 0 =>
           /\ Window.FirstUnremovedElement < Window.Count
           /\ ~InvalidElement(Window, Window.FirstUnremovedElement)
           /\ GetUnacknowledgedCount(Window) >= 1
    /\ (ret.op = "Encode" /\ ret.result = "Success") =>
           /\ ret.metadata.LDPCCount >= 1
           /\ ret.metadata.SumCount >= 1

\* C27 witness: Encode handed back the one original that a removal left
\* unacknowledged at the end of the window
C27_OneLeftAfterRemoval ==
    /\ ret.op = "Encode"
    /\ ret.kind = "single"
    /\ Window.FirstUnremovedElement > 0
    /\ Window.FirstUnremovedElement = Window.Count - 1
    /\ Window.ColumnStart = 0

\* C28: every element that AddLightColumns can draw for a pair lies in
\* [FirstUnremovedElement, Count) and holds a stored, unacknowledged original
\* of the matching column, and light columns are generated only over two or
\* more unacknowledged originals.
C28_LightElementsUnacknowledged ==
    (ret.op = "Encode" /\ ret.kind = "siamese") =>
        /\ ret.light.count >= 2
        /\ GetUnacknowledgedCount(Window) >= 2
        /\ \A r \in 0 .. (ret.light.count - 1) :
               LET element == LightElement(ret.light, r) IN
               /\ element >= Window.FirstUnremovedElement
               /\ element < Window.Count
               /\ Len(GetWindowElement(Window, element).Buffer) > 0
               /\ GetWindowElement(Window, element).Column
                      = ElementToColumn(Window, element)

\* C28 witness: light columns over a window whose first elements are removed
C28_LightAfterRemoval ==
    /\ ret.op = "Encode"
    /\ ret.kind = "siamese"
    /\ ret.light.startElement > 0
    /\ ret.light.startElement = Window.FirstUnremovedElement
    /\ ret.light.count = Window.Count - Window.FirstUnremovedElement

\* C29: RemoveElements never takes NextElement[l][s] below zero, also when
\* GetSum stops early on a failed allocation, and NextElement[l][s] mod
\* kColumnLaneCount is l in every state.  (A negative NextElement stands for
\* the value the unsigned subtraction wraps to.)
C29_NextElementNeverWraps ==
    \A l \in Lanes, s \in Sums :
        /\ Window.NextElement[l][s] >= 0
        /\ Window.NextElement[l][s] % kColumnLaneCount = l

\* C30: Retransmit never hands back an original that is acknowledged
\* already: the column it returns is not before the first unremoved element,
\* which the furthest next column expected and the furthest RemoveBefore
\* set, also when acknowledgements arrive out of order.
C30_RetransmitOnlyUnacknowledged ==
    [][(ret'.op = "Retransmit" /\ ret'.result = "Success") =>
           ColumnToElement(Window, ret'.PacketNum)
               >= Window.FirstUnremovedElement]_vars

\* C31: a malformed acknowledgement is never accepted: when Acknowledge has
\* returned InvalidInput for some bytes, the same bytes handed in again right
\* away do not return Success.
C31_InvalidStaysInvalid ==
    [][(/\ ret.op = "Acknowledge"
        /\ ret.result = "InvalidInput"
        /\ ret'.op = "Acknowledge"
        /\ ret'.Data = ret.Data) => ret'.result # "Success"]_vars

\* C32: acknowledged storage is reclaimed in every recovery mode: after every
\* successful Encode the first unremoved element is below
\* kEncoderRemoveThreshold, and Add returns MaxPacketsReached only while at
\* least SIAMESE_MAX_PACKETS - kEncoderRemoveThreshold originals are
\* unacknowledged.
C32_StorageReclaimed ==
    [][/\ (ret'.op = "Encode" /\ ret'.result = "Success")
            => Window'.FirstUnremovedElement < kEncoderRemoveThreshold
       /\ (ret'.op = "Add" /\ ret'.result = "MaxPacketsReached")
            => GetUnacknowledgedCount(Window)
                   >= SIAMESE_MAX_PACKETS - kEncoderRemoveThreshold]_vars

\* C33: parity rows are not repeated over the same data.  A parity row covers
\* no column below the next parity column it finds and only columns below the
\* next parity column it leaves, and no other step moves the next parity
\* column: the rows cover disjoint runs of columns, and the originals of one
\* row are all acknowledged before the next row is emitted.
C33_ParityRowsDisjoint ==
    [][IF ret'.op = "Encode" /\ ret'.kind = "parity"
       THEN \A i \in DOMAIN ret'.Data :
                /\ ~IsColumnDeltaNegative(
                       SubtractColumns(ret'.Data[i], Rows.NextParityColumn))
                /\ IsColumnDeltaNegative(
                       SubtractColumns(ret'.Data[i], Rows'.NextParityColumn))
                /\ ret'.Data[i] = ElementToColumn(Window,
                                      Window.FirstUnremovedElement + i - 1)
       ELSE Rows'.NextParityColumn = Rows.NextParityColumn]_vars

\* C33 witness: after the parity rows of the stream, a parity row over
\* originals of which one was added after the last of them
C33_NextParityRow ==
    /\ ret.op = "Encode"
    /\ ret.kind = "parity"
    /\ Window.Count > FullPrefill
    /\ Len(ret.Data) >= 2
    /\ ret.metadata.ColumnStart >= RowsAfterStream(FullPrefill).NextParityColumn

\* The preferred list and the full list, each followed for one window more
\* than the allocator has
PreferredList(A) ==
    ListFrom(A.Windows, A.PreferredWindowsHead, Len(A.Windows) + 1)

FullList(A) == ListFrom(A.Windows, A.FullWindowsHead, Len(A.Windows) + 1)

\* The preallocation of Allocator::Allocator has succeeded
Preallocated(A) == A.Windows # << >> /\ A.Windows[1].Preallocated

\* C34: allocator list integrity: every window is in exactly one of the
\* preferred and the full list, each list ends at nullptr without passing a
\* window twice, PreferredWindowsTail is the last preferred window, the two
\* counts are the lengths of the lists, and IntegrityCheck returns true, on
\* an allocator whose preallocation has succeeded.
C34_ListIntegrity ==
    LET preferred == PreferredList(Alloc)
        full == FullList(Alloc)
        windows == DOMAIN Alloc.Windows
        in(list) == { list[i] : i \in DOMAIN list }
    IN
    (~crashed /\ Preallocated(Alloc)) =>
        /\ Len(preferred) <= Len(Alloc.Windows)
        /\ Len(full) <= Len(Alloc.Windows)
        /\ Cardinality(in(preferred)) = Len(preferred)
        /\ Cardinality(in(full)) = Len(full)
        /\ in(preferred) \cup in(full) = windows
        /\ in(preferred) \cap in(full) = {}
        /\ Alloc.PreferredWindowsTail =
               (IF preferred = << >> THEN NullWindow
                ELSE preferred[Len(preferred)])
        /\ Alloc.PreferredWindowsCount = Len(preferred)
        /\ Alloc.FullWindowsCount = Len(full)
        /\ IntegrityCheck(Alloc)

\* The windows of the preferred list, by their Next pointers
PreferredWindows(A) ==
    LET preferred == PreferredList(A) IN
    { preferred[i] : i \in DOMAIN preferred }

\* Two live allocations of one window share a unit
Overlap(p, q) ==
    /\ p # q
    /\ p.Header = q.Header
    /\ p.Header # NullWindow
    /\ p.UnitStart < q.UnitStart + q.UsedUnits
    /\ q.UnitStart < p.UnitStart + p.UsedUnits

\* C35: in every window the bitmask has kWindowMaxUnits - FreeUnitCount bits
\* set, every window of the preferred list has FreeUnitCount > 0, and no two
\* live allocations overlap.
C35_UnitAccounting ==
    ~crashed =>
        /\ \A w \in DOMAIN Alloc.Windows :
               RangePopcount(Alloc.Windows[w].Used, 0, kWindowMaxUnits)
                   = kWindowMaxUnits - Alloc.Windows[w].FreeUnitCount
        /\ \A w \in PreferredWindows(Alloc) : Alloc.Windows[w].FreeUnitCount > 0
        /\ \A p, q \in Alloc.Live : ~Overlap(p, q)

\* The windows of the full list, by their Next pointers
FullWindows(A) ==
    LET full == FullList(A) IN { full[i] : i \in DOMAIN full }

\* C36: the full list holds, and InFullList marks, only windows whose
\* FreeUnitCount is below kPreferredThresholdUnits; and a Free that raises
\* the FreeUnitCount of such a window to kPreferredThresholdUnits or more
\* leaves it as the last window of the preferred list, out of the full list.
C36_FullPreferredContract ==
    /\ [](~crashed =>
            \A w \in DOMAIN Alloc.Windows :
                (w \in FullWindows(Alloc) \/ Alloc.Windows[w].InFullList)
                    => Alloc.Windows[w].FreeUnitCount < kPreferredThresholdUnits)
    /\ [][(/\ ret'.op = "Free"
           /\ ret'.full
           /\ Alloc'.Windows[ret'.ptr.Header].FreeUnitCount
                  >= kPreferredThresholdUnits)
          => LET w == ret'.ptr.Header
                 preferred == PreferredList(Alloc')
             IN /\ ~Alloc'.Windows[w].InFullList
                /\ w \notin FullWindows(Alloc')
                /\ Alloc'.PreferredWindowsTail = w
                /\ Alloc'.Windows[w].Next = NullWindow
                /\ Len(preferred) <= Len(Alloc'.Windows)
                /\ preferred # << >>
                /\ preferred[Len(preferred)] = w
                /\ Alloc'.FullWindowsCount = Alloc.FullWindowsCount - 1
                /\ Alloc'.PreferredWindowsCount = Alloc.PreferredWindowsCount + 1]_vars

\* C37: an Allocate during which the system allocation fails returns
\* nullptr and dereferences no null pointer, whatever the size of the
\* request; and Allocate(0) returns nullptr.
C37_NullOnFailure ==
    [][(ret'.op = "Allocate" /\ (ret'.oom # "none" \/ ret'.bytes = 0))
          => /\ ret'.outcome = "ok"
             /\ ret'.result = NullPtr
             /\ ~crashed']_vars

\* Thread t is inside OutputWorker::Flush
Flushing(t) == Threads.client[t].pc \in { "FlushCondition.wait", "flushed" }

\* C38: while the worker thread is not told to terminate, every thread
\* that waits in OutputWorker::Flush, by itself or as a part of
\* Channel::Error, leaves Flush in the end.
C38_FlushTerminates ==
    \A t \in Clients :
        Flushing(t) ~> (~Flushing(t) \/ OutputWorker.Terminated)

\* C39: every thread that has entered OutputWorker::Stop leaves it in the
\* end: the worker leaves its loop and the join returns.
C39_StopTerminates ==
    \A t \in Clients : Stopping(t) ~> ~Stopping(t)

\* The messages that the queue took, in the order of their Write calls
Accepted ==
    SelectSeq(Batch(1, Threads.passed), LAMBDA m : m \notin Threads.dropped)

\* The numbers of messages up to which C40 follows the writing
Progress ==
    (0 .. MaxWrites) \cup
    ((kWorkQueueLimit - 1) .. (kWorkQueueLimit - 1 + MaxWrites))

\* The number of messages that the queue took and that have left the
\* queues, and the number of dropped messages that the worker has put in a
\* report
WrittenCount ==
    Threads.passed - Cardinality(Threads.dropped)
        - Len(OutputWorker.QueuePrivate) - Len(OutputWorker.QueuePublic)

ReportedCount ==
    Cardinality(Threads.dropped) - Threads.Loop.overrun - OutputWorker.Overrun

\* C40: the messages written so far, the ones the worker is writing and
\* the ones in the public queue are, in this order, the messages that the
\* queue took, in the order of their Write calls; the messages it did not
\* take are as many as the reports on stdout, the worker's count and
\* Overrun add up to; a Write drops its message only with kWorkQueueLimit
\* messages in the public queue; and while the worker is not told to
\* terminate, every message that the queue took leaves the queues in the
\* end, which by the first part means that stdout shows it, and every
\* message that it did not take leaves the counts, which means that a
\* report on stdout counts it.
C40_QueueConservation ==
    /\ [](/\ WrittenMessages(OutputWorker) \o OutputWorker.QueuePrivate
                 \o OutputWorker.QueuePublic = Accepted
          /\ Cardinality(Threads.dropped)
                 = ReportedOverrun(OutputWorker.stdout)
                       + Threads.Loop.overrun + OutputWorker.Overrun)
    /\ [][Threads'.dropped # Threads.dropped
              => Len(OutputWorker.QueuePublic) >= kWorkQueueLimit]_vars
    /\ \A n \in Progress :
           (Threads.passed - Cardinality(Threads.dropped) >= n)
               ~> (WrittenCount >= n \/ OutputWorker.Terminated)
    /\ \A n \in 1 .. MaxWrites :
           (Cardinality(Threads.dropped) >= n)
               ~> (ReportedCount >= n \/ OutputWorker.Terminated)

\* C40 witness: with the worker running, the queue took kWorkQueueLimit
\* messages and dropped one; all of the former were written, in two turns
\* of the loop or more, and the loss was reported
C40_WrittenAndReported ==
    /\ ~OutputWorker.Terminated
    /\ Threads.dropped # {}
    /\ Len(WrittenMessages(OutputWorker)) = kWorkQueueLimit
    /\ WrittenMessages(OutputWorker) = Accepted
    /\ ReportedOverrun(OutputWorker.stdout) = Cardinality(Threads.dropped)

====
